---- MODULE Spec2Model ----
(***************************************************************************)
(* Model of the monitoring platform's correlation -> anomaly scoring ->    *)
(* alert pipeline (src/main_processor_enhanced.py, src/correlator,         *)
(* src/anomaly-detector) and of the notification service                   *)
(* (src/alerting-system/alert.py).                                         *)
(*                                                                         *)
(* Conventions.  A dictionary field that may be missing (dict.get) is a    *)
(* sequence of length 0 (missing / None) or 1 (the value).  error_rate and *)
(* confidence are integers in tenths (0.5 is 5).  Wall-clock time is an    *)
(* integer number of seconds.                                              *)
(***************************************************************************)
EXTENDS Integers, Sequences, FiniteSets, TLC

\* ------------------------------------------------------------------ bounds
MaxRecords == 3         \* records one fetch returns, both series together
MaxElapsed == 1         \* seconds the model lets pass after StartTime
MaxBatch == 2           \* anomalies in a batch handed to process_anomalies
MaxRecorded == 2        \* keys written by direct _update_alert_history calls
MaxDispatchElapsed == 300   \* seconds the dispatcher model lets pass
StartTime == 1000       \* wall clock when the process starts
MaxSilence == 601       \* seconds since StartTime at the latest tracked dispatch

\* ------------------------------------------------------- program constants
LegacyWindow == 10          \* correlate(): abs(z_ts - h_ts) <= 10
ErrorRateRule == 5          \* detect_anomalies(): error_rate > 0.5
DefaultThreshold == 5       \* ProcessingConfig.anomaly_detection_threshold
CriticalAbove == 8          \* _calculate_severity(): error_rate > 0.8
HighAbove == 6              \* _calculate_severity(): error_rate > 0.6
MediumAbove == 4            \* _calculate_severity(): error_rate > 0.4
BaseConfidence == 5         \* _calculate_confidence(): score = 0.5
FieldBonus == 2             \* _calculate_confidence(): score += 0.2
TightWindowBonus == 1       \* _calculate_confidence(): score += 0.1
TightWindow == 5            \* _calculate_confidence(): correlation_window <= 5
FullConfidence == 10        \* _calculate_confidence(): min(score, 1.0)
ConfidenceFloor == 3        \* _should_send_alert(): confidence < 0.3
HistoryCap == 100           \* _update_alert_history(): keep last 100
rate_limit_window == 300    \* AlertingSystem.__init__: 5 minutes
PruneFactor == 2            \* _track_sent_alert(): rate_limit_window * 2

VARIABLES
    now,                \* wall clock, time.time() in whole seconds
    correlation_window, \* ProcessingConfig.correlation_window_seconds
    anomaly_detection_threshold,    \* ProcessingConfig, in tenths
    interrupted,        \* a KeyboardInterrupt was raised in the process
    fetch_error,        \* fetch_recent_data: what failed in the last fetch
    pc,                 \* position of process_data_cycle
    results,            \* the summary process_data_cycle builds
    zabbix_data,        \* seriesA as fetched
    hyphenmon_data,     \* seriesB as fetched
    correlated_data,    \* output of correlate_datasets
    anomalies,          \* output of detect_anomalies_batch / input batch
    idx,                \* process_anomalies: index of the next anomaly
    decisions,          \* process_anomalies: _should_send_alert per anomaly
    alerts_sent,        \* process_anomalies: local counter
    error_log,          \* process_anomalies: count of logger.error calls
    alert_history,      \* AlertManager.alert_history
    alert_config,       \* AlertingSystem.alert_config: the enabled flags
    sent_alerts,        \* AlertingSystem.sent_alerts
    send_call,          \* send_alert: the arguments and time of the last call
    send_result,        \* send_alert: what the last call returned
    attempted,          \* send_alert: channels handed to _send_to_channel
    last_success        \* per (source, title): when a dispatch last succeeded

pipelineVars == <<correlation_window, anomaly_detection_threshold,
                  interrupted, fetch_error, pc, results, zabbix_data,
                  hyphenmon_data, correlated_data>>

throttleVars == <<anomalies, idx, decisions, alerts_sent, error_log,
                  alert_history>>

dispatchVars == <<alert_config, sent_alerts, send_call, send_result, attempted,
                  last_success>>

vars == <<now, pipelineVars, throttleVars, dispatchVars>>

\* ----------------------------------------------------------------- helpers
Abs(x) == IF x < 0 THEN -x ELSE x

Min(a, b) == IF a <= b THEN a ELSE b

Range(s) == {s[i] : i \in DOMAIN s}

\* dict.get(field): <<>> when the key is missing or None, <<v>> otherwise
Present(f) == f # <<>>

Val(f) == f[1]

\* Python truthiness of dict.get(field): None and 0 are falsy
Truthy(f) == Present(f) /\ Val(f) # 0

\* A field that holds text which is not a number, given as its character
\* codes (two or more); a field of length 1 holds the integer itself
IsText(f) == Len(f) > 1

\* The text "ab"
BadText == <<97, 98>>

\* All sequences over S of length 0..n
SeqsUpTo(S, n) == UNION {[1..k -> S] : k \in 0..n}

\* get_current_timestamp(): a clock read returns the second of the previous
\* read or the next one
ClockReads == {t \in {now, now + 1} : t <= StartTime + MaxElapsed}

\* ------------------------------------------------- correlator/correlate.py
\* correlate(zabbix_data, hyphenmon_data): looks at zabbix_data[0] only and
\* compares against the fixed 10 second tolerance; {} (here <<>>) otherwise.
correlate(zabbix_list, h_data) ==
    LET z_ts == IF Present(zabbix_list[1].lastclock)
                THEN Val(zabbix_list[1].lastclock) ELSE 0
        h_ts == Val(h_data.timestamp)
    IN  IF Abs(z_ts - h_ts) <= LegacyWindow
        THEN <<[zabbix |-> zabbix_list[1], hyphenmon |-> h_data]>>
        ELSE <<>>

\* --------------------------------------------------------- CorrelationEngine
\* Mutant: the window test of the inner loop is left out
RECURSIVE matching_zabbix_unwindowed(_, _, _)
matching_zabbix_unwindowed(zdata, h_timestamp, window) ==
    IF zdata = <<>> THEN <<>>
    ELSE (IF Truthy(Head(zdata).lastclock) THEN <<Head(zdata)>> ELSE <<>>)
         \o matching_zabbix_unwindowed(Tail(zdata), h_timestamp, window)

\* The inner loop of correlate_datasets: the Zabbix records, in order, whose
\* lastclock is truthy and within the configured window of h_timestamp.
RECURSIVE matching_zabbix(_, _, _)
matching_zabbix(zdata, h_timestamp, window) ==
    IF zdata = <<>> THEN <<>>
    ELSE LET z == Head(zdata)
             keep == Truthy(z.lastclock)
                     /\ Abs(Val(z.lastclock) - h_timestamp) <= window
         IN  (IF keep THEN <<z>> ELSE <<>>)
             \o matching_zabbix(Tail(zdata), h_timestamp, window)

\* "for z_match in matching_zabbix": correlate([z_match], h_data) and, when the
\* result is non-empty, stamp it and append it.
\* Mutant: a pair is emitted only while the clock has not passed the seriesB
\* timestamp
RECURSIVE correlate_matches_fresh(_, _, _, _)
correlate_matches_fresh(matches, h_data, window, t) ==
    IF matches = <<>> \/ t > Val(h_data.timestamp) THEN <<>>
    ELSE LET r == correlate(<<Head(matches)>>, h_data)
             out == IF r # <<>>
                    THEN <<[zabbix |-> r[1].zabbix,
                            hyphenmon |-> r[1].hyphenmon,
                            correlation_timestamp |-> t,
                            correlation_window |-> window]>>
                    ELSE <<>>
         IN  out \o correlate_matches_fresh(Tail(matches), h_data, window, t)

RECURSIVE correlate_matches(_, _, _, _)
correlate_matches(matches, h_data, window, t) ==
    IF matches = <<>> THEN <<>>
    ELSE LET r == correlate(<<Head(matches)>>, h_data)
             out == IF r # <<>>
                    THEN <<[zabbix |-> r[1].zabbix,
                            hyphenmon |-> r[1].hyphenmon,
                            correlation_timestamp |-> t,
                            correlation_window |-> window]>>
                    ELSE <<>>
         IN  out \o correlate_matches(Tail(matches), h_data, window, t)

\* correlate_datasets raises ValueError: int(z_timestamp) and int(h_timestamp)
\* of the window test stand outside the try block, and they are evaluated for
\* every seriesB record and seriesA record whose timestamps are both truthy
correlate_datasets_raises(zdata, hdata) ==
    \E j \in DOMAIN hdata, i \in DOMAIN zdata :
        /\ Truthy(hdata[j].timestamp)
        /\ Truthy(zdata[i].lastclock)
        /\ IsText(hdata[j].timestamp) \/ IsText(zdata[i].lastclock)

\* CorrelationEngine.correlate_datasets(zabbix_data, hyphenmon_data) when it
\* returns
RECURSIVE correlate_datasets(_, _, _, _)
correlate_datasets(zdata, hdata, window, t) ==
    IF hdata = <<>> THEN <<>>
    ELSE LET h_data == Head(hdata)
             mine == IF ~Truthy(h_data.timestamp) THEN <<>>
                     ELSE correlate_matches(
                              matching_zabbix(zdata, Val(h_data.timestamp), window),
                              h_data, window, t)
         IN  mine \o correlate_datasets(zdata, Tail(hdata), window, t)
\* ------------------------------------------- anomaly-detector/detect.py
\* Mutant: the rule compares against the configured threshold
detect_anomalies_configured(record) ==
    LET error_rate == IF Present(record.hyphenmon.error_rate)
                      THEN Val(record.hyphenmon.error_rate) ELSE 0
    IN  IF error_rate > anomaly_detection_threshold
        THEN <<"High error rate in app!">> ELSE <<>>

\* detect_anomalies(correlated_data): the list of finding messages
detect_anomalies(record) ==
    LET error_rate == IF Present(record.hyphenmon.error_rate)
                      THEN Val(record.hyphenmon.error_rate) ELSE 0
    IN  IF error_rate > ErrorRateRule
        THEN <<"High error rate in app!">> ELSE <<>>

\* detect_anomalies raises TypeError: an error_rate that is text cannot be
\* compared with 0.5
detect_anomalies_raises(record) == IsText(record.hyphenmon.error_rate)

\* ---------------------------------------------------- AnomalyDetectionEngine
_calculate_severity(record) ==
    LET error_rate == IF Present(record.hyphenmon.error_rate)
                      THEN Val(record.hyphenmon.error_rate) ELSE 0
    IN  IF error_rate > CriticalAbove THEN "CRITICAL"
        ELSE IF error_rate > HighAbove THEN "HIGH"
        ELSE IF error_rate > MediumAbove THEN "MEDIUM"
        ELSE "LOW"

\* Mutant: a populated response_time_ms lowers the score
calculate_confidence_penalty(record) ==
    LET s0 == BaseConfidence
        s1 == IF Truthy(record.hyphenmon.response_time_ms)
              THEN s0 - FieldBonus ELSE s0
        s2 == IF Truthy(record.zabbix.lastvalue) THEN s1 + FieldBonus ELSE s1
        s3 == IF record.correlation_window <= TightWindow
              THEN s2 + TightWindowBonus ELSE s2
    IN  Min(s3, FullConfidence)
\* Mutant: the score starts from 0 instead of the base confidence
calculate_confidence_from_zero(record) ==
    LET s1 == IF Truthy(record.hyphenmon.response_time_ms)
              THEN FieldBonus ELSE 0
        s2 == IF Truthy(record.zabbix.lastvalue) THEN s1 + FieldBonus ELSE s1
        s3 == IF record.correlation_window <= TightWindow
              THEN s2 + TightWindowBonus ELSE s2
    IN  Min(s3, FullConfidence)

_calculate_confidence(record) ==
    LET s0 == BaseConfidence
        s1 == IF Truthy(record.hyphenmon.response_time_ms)
              THEN s0 + FieldBonus ELSE s0
        s2 == IF Truthy(record.zabbix.lastvalue) THEN s1 + FieldBonus ELSE s1
        s3 == IF record.correlation_window <= TightWindow
              THEN s2 + TightWindowBonus ELSE s2
    IN  Min(s3, FullConfidence)

\* Mutant: an event is built for every record, "if alerts:" left out
RECURSIVE detect_anomalies_batch_unfiltered(_, _)
detect_anomalies_batch_unfiltered(data, stamps) ==
    IF data = <<>> THEN <<>>
    ELSE LET record == Head(data)
         IN  <<[timestamp |-> Head(stamps),
                correlated_data |-> record,
                alerts |-> detect_anomalies(record),
                severity |-> _calculate_severity(record),
                confidence |-> _calculate_confidence(record)]>>
             \o detect_anomalies_batch_unfiltered(Tail(data), Tail(stamps))

\* Mutant: the try block stands around the loop, the first record that
\* raises ends the batch
RECURSIVE detect_anomalies_batch_abort(_, _)
detect_anomalies_batch_abort(data, stamps) ==
    IF data = <<>> \/ detect_anomalies_raises(Head(data)) THEN <<>>
    ELSE LET record == Head(data)
             alerts == detect_anomalies(record)
             out == IF alerts # <<>>
                    THEN <<[timestamp |-> Head(stamps),
                            correlated_data |-> record,
                            alerts |-> alerts,
                            severity |-> _calculate_severity(record),
                            confidence |-> _calculate_confidence(record)]>>
                    ELSE <<>>
         IN  out \o detect_anomalies_batch_abort(Tail(data), Tail(stamps))
\* Mutant: a flagged record is appended to the result twice
RECURSIVE detect_anomalies_batch_twice(_, _)
detect_anomalies_batch_twice(data, stamps) ==
    IF data = <<>> THEN <<>>
    ELSE LET record == Head(data)
             alerts == IF detect_anomalies_raises(record) THEN <<>>
                       ELSE detect_anomalies(record)
             out == IF alerts # <<>>
                    THEN <<[timestamp |-> Head(stamps),
                            correlated_data |-> record,
                            alerts |-> alerts,
                            severity |-> _calculate_severity(record),
                            confidence |-> _calculate_confidence(record)]>>
                    ELSE <<>>
         IN  out \o out
                 \o detect_anomalies_batch_twice(Tail(data), Tail(stamps))

\* Mutant: a new event is put in front of the list
RECURSIVE detect_anomalies_batch_prepend(_, _)
detect_anomalies_batch_prepend(data, stamps) ==
    IF data = <<>> THEN <<>>
    ELSE LET record == Head(data)
             alerts == IF detect_anomalies_raises(record) THEN <<>>
                       ELSE detect_anomalies(record)
             out == IF alerts # <<>>
                    THEN <<[timestamp |-> Head(stamps),
                            correlated_data |-> record,
                            alerts |-> alerts,
                            severity |-> _calculate_severity(record),
                            confidence |-> _calculate_confidence(record)]>>
                    ELSE <<>>
         IN  detect_anomalies_batch_prepend(Tail(data), Tail(stamps)) \o out

\* detect_anomalies_batch(correlated_data); stamps[i] is the clock read made
\* while record i is handled.  A record for which detect_anomalies raises is
\* logged by the except clause of the loop and yields nothing.
RECURSIVE detect_anomalies_batch(_, _)
detect_anomalies_batch(data, stamps) ==
    IF data = <<>> THEN <<>>
    ELSE LET record == Head(data)
             alerts == IF detect_anomalies_raises(record) THEN <<>>
                       ELSE detect_anomalies(record)
             out == IF alerts # <<>>
                    THEN <<[timestamp |-> Head(stamps),
                            correlated_data |-> record,
                            alerts |-> alerts,
                            severity |-> _calculate_severity(record),
                            confidence |-> _calculate_confidence(record)]>>
                    ELSE <<>>
         IN  out \o detect_anomalies_batch(Tail(data), Tail(stamps))

\* -------------------------------------------------------------- AlertManager
\* The character codes of str(n) for an integer n >= 0
RECURSIVE DecimalString(_)
DecimalString(n) ==
    IF n < 10 THEN <<48 + n>>
    ELSE Append(DecimalString(n \div 10), 48 + (n % 10))

\* The character codes of a severity name
SeverityString(severity) ==
    CASE severity = "CRITICAL" -> <<67, 82, 73, 84, 73, 67, 65, 76>>
      [] severity = "HIGH" -> <<72, 73, 71, 72>>
      [] severity = "MEDIUM" -> <<77, 69, 68, 73, 85, 77>>
      [] severity = "LOW" -> <<76, 79, 87>>

\* alert_key = f"{severity}_{timestamp}", kept as the pair it is built from
alert_key(anomaly) == <<anomaly.severity, anomaly.timestamp>>

\* The characters of the key string f"{severity}_{timestamp}"
KeyString(key) == SeverityString(key[1]) \o <<95>> \o DecimalString(key[2])

\* Python's str < str: lexicographic on character codes, a proper prefix first
RECURSIVE StrLess(_, _)
StrLess(a, b) ==
    IF b = <<>> THEN FALSE
    ELSE IF a = <<>> THEN TRUE
    ELSE IF Head(a) # Head(b) THEN Head(a) < Head(b)
    ELSE StrLess(Tail(a), Tail(b))

\* Mutant: the history check is made before the CRITICAL bypass
should_send_alert_history_first(anomaly, history) ==
    IF anomaly.confidence < ConfidenceFloor THEN FALSE
    ELSE IF alert_key(anomaly) \in DOMAIN history THEN FALSE
    ELSE TRUE

\* Mutant: the CRITICAL bypass is made before the confidence floor
should_send_alert_critical_first(anomaly, history) ==
    IF anomaly.severity = "CRITICAL" THEN TRUE
    ELSE IF anomaly.confidence < ConfidenceFloor THEN FALSE
    ELSE IF alert_key(anomaly) \in DOMAIN history THEN FALSE
    ELSE TRUE

\* AlertManager._should_send_alert(anomaly)
_should_send_alert(anomaly, history) ==
    IF anomaly.confidence < ConfidenceFloor THEN FALSE
    ELSE IF anomaly.severity = "CRITICAL" THEN TRUE
    ELSE IF alert_key(anomaly) \in DOMAIN history THEN FALSE
    ELSE TRUE

\* The first m keys of sorted(keys): Python sorts the key strings
RECURSIVE smallest_keys(_, _)
smallest_keys(keys, m) ==
    IF m <= 0 \/ keys = {} THEN {}
    ELSE LET first == CHOOSE k \in keys :
                          \A j \in keys :
                              j = k \/ StrLess(KeyString(k), KeyString(j))
         IN  {first} \cup smallest_keys(keys \ {first}, m - 1)

\* Mutant: the slice keeps one key more than the cap
evicted_keys_short(history) ==
    smallest_keys(DOMAIN history,
                  Cardinality(DOMAIN history) - HistoryCap - 1)

\* sorted_keys[:-100]: every key but the last 100 of the sorted key strings
evicted_keys(history) ==
    smallest_keys(DOMAIN history, Cardinality(DOMAIN history) - HistoryCap)

\* AlertManager._update_alert_history(anomaly), the clock reading t
_update_alert_history(history, anomaly, t) ==
    LET key == alert_key(anomaly)
        recorded == [k \in DOMAIN history \cup {key} |->
                        IF k = key THEN t ELSE history[k]]
    IN  IF Cardinality(DOMAIN recorded) > HistoryCap
        THEN LET kept == DOMAIN recorded \ evicted_keys(recorded)
             IN  [k \in kept |-> recorded[k]]
        ELSE recorded

\* MonitoringPlatformLogger.warning(self, message, **context): binding a
\* keyword argument named "message" next to the positional message raises
\* TypeError before anything is logged.
logger_warning_raises(keywords) == "message" \in keywords

\* The keyword arguments of the "Alert generated" logger.warning call in
\* process_anomalies
AlertGeneratedKeywords == {"message", "severity", "confidence"}

\* ------------------------------------------------------------------ inputs
\* Rows of zabbix_items (seriesA) the fetch may return
ZabbixRecords ==
    {[lastclock |-> c, lastvalue |-> v] :
        c \in {<<1005>>, <<1011>>}, v \in {<<>>, <<42>>}}
    \cup {[lastclock |-> <<1010>>, lastvalue |-> <<42>>],
          [lastclock |-> <<>>, lastvalue |-> <<42>>],
          [lastclock |-> BadText, lastvalue |-> <<42>>]}

\* Rows of hyphenmon_metrics (seriesB) the fetch may return
HyphenmonRecords ==
    {[timestamp |-> <<1000>>, error_rate |-> e, response_time_ms |-> r] :
        e \in {<<7>>, <<9>>}, r \in {<<>>, <<120>>}}
    \cup {[timestamp |-> <<1000>>, error_rate |-> <<2>>,
           response_time_ms |-> <<120>>],
          [timestamp |-> <<>>, error_rate |-> <<9>>,
           response_time_ms |-> <<120>>],
          [timestamp |-> BadText, error_rate |-> <<9>>,
           response_time_ms |-> <<120>>]}

\* ORDER BY ... DESC of the two queries: the rows come latest first, the rows
\* without a value (NULL) last; where a row with text stands depends on the
\* column's collation and is left open
DescendingOrder(stamps) ==
    \A i, j \in DOMAIN stamps :
        (i < j /\ Present(stamps[j]) /\ ~IsText(stamps[j])
         /\ ~IsText(stamps[i])) =>
            (Present(stamps[i]) /\ Val(stamps[i]) >= Val(stamps[j]))

\* Values of ProcessingConfig.correlation_window_seconds
Windows == {5, 10, 15}

\* ------------------------------------------------------ MonitoringProcessor
\* The results dictionary process_data_cycle starts from
NewResults(t) ==
    [start_time |-> t, success |-> FALSE, zabbix_records |-> 0,
     hyphenmon_records |-> 0, correlations |-> 0, anomalies |-> 0,
     alerts_sent |-> 0, errors |-> <<>>, end_time |-> <<>>,
     duration_seconds |-> <<>>]

\* Values of (email_enabled, slack_enabled, webhook_enabled)
AlertConfigs ==
    {[email_enabled |-> TRUE, slack_enabled |-> TRUE, webhook_enabled |-> TRUE],
     [email_enabled |-> FALSE, slack_enabled |-> TRUE,
      webhook_enabled |-> FALSE],
     [email_enabled |-> FALSE, slack_enabled |-> FALSE,
      webhook_enabled |-> FALSE]}

\* AlertingSystem.__init__: nothing sent yet.  The configuration object is
\* the one handed to the constructor.
DispatchConstructed ==
    /\ sent_alerts = <<>>
    /\ send_call = <<>>
    /\ send_result = <<>>
    /\ attempted = <<>>
    /\ last_success = <<>>

\* MonitoringProcessor.__init__ never builds an AlertingSystem; the flags are
\* fixed here only so that every variable has a value.
NoAlertConfig == [email_enabled |-> FALSE, slack_enabled |-> FALSE,
                  webhook_enabled |-> FALSE]

PipelineInit ==
    /\ alert_config = NoAlertConfig
    /\ now = StartTime
    /\ correlation_window \in Windows
    /\ anomaly_detection_threshold = DefaultThreshold
    /\ interrupted = FALSE
    /\ fetch_error = "none"
    /\ pc = "idle"
    /\ results = NewResults(StartTime)
    /\ zabbix_data = <<>>
    /\ hyphenmon_data = <<>>
    /\ correlated_data = <<>>
    /\ anomalies = <<>>
    /\ idx = 1
    /\ decisions = <<>>
    /\ alerts_sent = 0
    /\ error_log = 0
    /\ alert_history = <<>>
    /\ DispatchConstructed

\* Mutant: the handler logs the error and records nothing
cycle_error_unrecorded(summary, error_msg) == summary

\* Mutant: the handler records the error and reports the cycle as a success
cycle_error_reported_done(summary, error_msg) ==
    [summary EXCEPT !.errors = Append(@, error_msg), !.success = TRUE]

\* "except Exception as e" of process_data_cycle: the error is appended to
\* results['errors']; results['success'] keeps the value it has
cycle_error(summary, error_msg) ==
    [summary EXCEPT !.errors = Append(@, error_msg)]

\* Mutant: a cycle is started by a timer wherever the previous one stands
cycle_may_start_on_timer(position) == position # "stopped"

\* process_data_cycle is called by one thread: by main() or by the first
\* turn of the loop of run_continuous, and then only after time.sleep has
\* returned, which follows the return of the previous call
cycle_may_start(position) == position \in {"idle", "sleeping"}

\* process_data_cycle, entry: cycle_start_time and the results dictionary
StartCycle ==
    /\ UNCHANGED dispatchVars
    /\ cycle_may_start(pc)
    /\ \E t \in ClockReads :
        /\ now' = t
        /\ results' = NewResults(t)
    /\ pc' = "fetching"
    /\ zabbix_data' = <<>>
    /\ hyphenmon_data' = <<>>
    /\ correlated_data' = <<>>
    /\ anomalies' = <<>>
    /\ idx' = 1
    /\ decisions' = <<>>
    /\ alerts_sent' = 0
    /\ error_log' = 0
    /\ fetch_error' = "none"
    /\ UNCHANGED <<correlation_window, anomaly_detection_threshold,
                   interrupted, alert_history>>

\* Mutant: the rows of the first query survive a failure of the second one
fetch_recent_data_partial(zabbix_records, hyphenmon_records, failure) ==
    IF failure = "connection" THEN << <<>>, <<>> >>
    ELSE IF failure = "query" THEN << <<>>, hyphenmon_records >>
    ELSE <<zabbix_records, hyphenmon_records>>

\* DatabaseManager.fetch_recent_data: the rows of the two queries, or [], []
\* from either except clause when get_connection or a query raised
fetch_recent_data(zabbix_records, hyphenmon_records, failure) ==
    IF failure = "none" THEN <<zabbix_records, hyphenmon_records>>
    ELSE << <<>>, <<>> >>

\* What can go wrong in one fetch: nothing, no connection from the pool, or
\* an error of the zabbix query after the hyphenmon rows were read
FetchFailures == {"none", "connection", "query"}

\* Step 1: DatabaseManager.fetch_recent_data and the two record counts; the
\* cycle returns when seriesB is empty
FetchRecentData ==
    /\ UNCHANGED dispatchVars
    /\ pc = "fetching"
    /\ \E rows_z \in SeqsUpTo(ZabbixRecords, MaxRecords),
          rows_h \in SeqsUpTo(HyphenmonRecords, MaxRecords),
          failure \in FetchFailures :
        /\ Len(rows_z) + Len(rows_h) <= MaxRecords
        /\ DescendingOrder([i \in DOMAIN rows_z |-> rows_z[i].lastclock])
        /\ DescendingOrder([i \in DOMAIN rows_h |-> rows_h[i].timestamp])
        /\ failure = "connection" => rows_z = <<>> /\ rows_h = <<>>
        /\ failure = "query" => rows_z = <<>>
        /\ \E fetched \in {fetch_recent_data(rows_z, rows_h, failure)} :
            LET z == fetched[1]
                h == fetched[2]
            IN  /\ zabbix_data' = z
                /\ hyphenmon_data' = h
                /\ results' = [results EXCEPT !.zabbix_records = Len(z),
                                              !.hyphenmon_records = Len(h),
                                              !.success = (h = <<>>)]
                /\ pc' = IF h = <<>> THEN "finally" ELSE "correlating"
        /\ fetch_error' = failure
    /\ UNCHANGED <<now, correlation_window, anomaly_detection_threshold,
                   interrupted, correlated_data, anomalies, idx,
                   decisions, alerts_sent, error_log, alert_history>>

\* Step 2: CorrelationEngine.correlate_datasets; an exception it raises is
\* caught by the handler of the cycle
CorrelateDatasets ==
    /\ UNCHANGED dispatchVars
    /\ pc = "correlating"
    /\ \E t \in ClockReads :
        /\ now' = t
        /\ IF correlate_datasets_raises(zabbix_data, hyphenmon_data)
           THEN /\ correlated_data' = <<>>
                /\ results' = cycle_error(results,
                                   "Critical error in processing cycle")
                /\ pc' = "finally"
           ELSE LET out == correlate_datasets(zabbix_data, hyphenmon_data,
                                              correlation_window, t)
                IN  /\ correlated_data' = out
                    /\ results' = [results EXCEPT
                                      !.correlations = Len(out),
                                      !.success = (out = <<>>)]
                    /\ pc' = IF out = <<>> THEN "finally" ELSE "scoring"
    /\ UNCHANGED <<correlation_window, anomaly_detection_threshold,
                   interrupted, fetch_error, zabbix_data, hyphenmon_data, anomalies,
                   idx, decisions, alerts_sent, error_log, alert_history>>

\* Step 3: AnomalyDetectionEngine.detect_anomalies_batch; the clock may move
\* on after the first k records
DetectAnomaliesBatch ==
    /\ UNCHANGED dispatchVars
    /\ pc = "scoring"
    /\ \E t \in ClockReads, k \in 0..Len(correlated_data) :
        LET stamps == [i \in 1..Len(correlated_data) |->
                          IF i <= k THEN now ELSE t]
            out == detect_anomalies_batch(correlated_data, stamps)
        IN  /\ now' = t
            /\ anomalies' = out
            /\ results' = [results EXCEPT !.anomalies = Len(out),
                                          !.success = (out = <<>>)]
            /\ pc' = IF out = <<>> THEN "finally" ELSE "alerting"
    /\ idx' = 1
    /\ decisions' = <<>>
    /\ alerts_sent' = 0
    /\ error_log' = 0
    /\ UNCHANGED <<correlation_window, anomaly_detection_threshold,
                   interrupted, fetch_error, zabbix_data, hyphenmon_data,
                   correlated_data, alert_history>>

\* Step 4, one iteration of "for anomaly in anomalies" in process_anomalies.
\* The logger.warning call comes before alerts_sent += 1 and before
\* _update_alert_history; when it raises, the except branch logs an error
\* and the loop goes on.
ProcessAnomaly ==
    /\ UNCHANGED dispatchVars
    /\ pc = "alerting"
    /\ idx <= Len(anomalies)
    /\ LET anomaly == anomalies[idx]
           send == _should_send_alert(anomaly, alert_history)
       IN  /\ decisions' = Append(decisions, send)
           /\ IF send /\ ~logger_warning_raises(AlertGeneratedKeywords)
              THEN /\ \E t \in ClockReads :
                        /\ now' = t
                        /\ alert_history' =
                               _update_alert_history(alert_history, anomaly, t)
                   /\ alerts_sent' = alerts_sent + 1
                   /\ UNCHANGED error_log
              ELSE /\ error_log' = IF send THEN error_log + 1 ELSE error_log
                   /\ UNCHANGED <<now, alert_history, alerts_sent>>
    /\ idx' = idx + 1
    /\ UNCHANGED <<correlation_window, anomaly_detection_threshold,
                   interrupted, fetch_error, pc, results, zabbix_data, hyphenmon_data,
                   correlated_data, anomalies>>

\* process_anomalies returns alerts_sent; the cycle records it and succeeds
ProcessAnomaliesReturn ==
    /\ UNCHANGED dispatchVars
    /\ pc = "alerting"
    /\ idx > Len(anomalies)
    /\ results' = [results EXCEPT !.alerts_sent = alerts_sent,
                                  !.success = TRUE]
    /\ pc' = "finally"
    /\ UNCHANGED <<now, correlation_window, anomaly_detection_threshold,
                   interrupted, fetch_error, zabbix_data, hyphenmon_data,
                   correlated_data, anomalies, idx, decisions, alerts_sent,
                   error_log, alert_history>>


\* Mutant: a cycle that failed returns its summary as the except clause left it
finally_block_on_success(summary, t) ==
    IF summary.success
    THEN [summary EXCEPT !.end_time = <<t>>,
                         !.duration_seconds = <<t - summary.start_time>>]
    ELSE summary

\* The two assignments of the finally clause, t being the clock reading
finally_block(summary, t) ==
    [summary EXCEPT !.end_time = <<t>>,
                    !.duration_seconds = <<t - summary.start_time>>]

\* The finally block of process_data_cycle: end_time and duration_seconds
FinishCycle ==
    /\ UNCHANGED dispatchVars
    /\ pc = "finally"
    /\ \E t \in ClockReads :
        /\ now' = t
        /\ results' = finally_block(results, t)
    /\ pc' = "done"
    /\ UNCHANGED <<correlation_window, anomaly_detection_threshold,
                   interrupted, fetch_error, zabbix_data, hyphenmon_data,
                   correlated_data, anomalies, idx, decisions, alerts_sent,
                   error_log, alert_history>>

\* Mutant: the loop is left when the cycle failed
loop_ends_on_failure(summary) == summary.success

\* "while True" of run_continuous: no statement between the return of
\* process_data_cycle and time.sleep leaves the loop, whatever the summary
loop_goes_on(summary) == TRUE

\* run_continuous after process_data_cycle has returned: the summary is
\* logged and the loop calls time.sleep(interval_minutes * 60).  The modelled
\* clock is bounded and is not moved by the length of the sleep.
SleepUntilNextCycle ==
    /\ UNCHANGED dispatchVars
    /\ pc = "done"
    /\ pc' = IF loop_goes_on(results) THEN "sleeping" ELSE "stopped"
    /\ UNCHANGED <<now, correlation_window, anomaly_detection_threshold,
                   interrupted, fetch_error, results, zabbix_data, hyphenmon_data,
                   correlated_data, anomalies, idx, decisions, alerts_sent,
                   error_log, alert_history>>

\* "except KeyboardInterrupt" of run_continuous: the signal may arrive at any
\* statement of the loop and ends it
KeyboardInterrupt ==
    /\ UNCHANGED dispatchVars
    /\ pc \notin {"idle", "stopped"}
    /\ interrupted' = TRUE
    /\ pc' = "stopped"
    /\ UNCHANGED <<now, correlation_window, anomaly_detection_threshold,
                   fetch_error, results, zabbix_data, hyphenmon_data,
                   correlated_data,
                   anomalies, idx, decisions, alerts_sent, error_log,
                   alert_history>>

PipelineNext ==
    \/ StartCycle
    \/ FetchRecentData
    \/ CorrelateDatasets
    \/ DetectAnomaliesBatch
    \/ ProcessAnomaly
    \/ ProcessAnomaliesReturn
    \/ FinishCycle
    \/ SleepUntilNextCycle

Init == PipelineInit

Next == PipelineNext

Spec == Init /\ [][Next]_vars

\* run_continuous with the stop signal; the loop is one thread: time.sleep
\* returns and the statement after it is executed
ContinuousNext == Next \/ KeyboardInterrupt

SpecContinuous ==
    /\ Init
    /\ [][ContinuousNext]_vars
    /\ WF_vars(SleepUntilNextCycle)
    /\ WF_vars(StartCycle)

\* ------------------------------------------------ AlertManager on its own
\* Events handed to the AlertManager directly: every severity, a confidence
\* below and at the floor, and one more timestamp for HIGH.
ThrottleEvents ==
    {[timestamp |-> StartTime, severity |-> s, confidence |-> c] :
        s \in {"CRITICAL", "HIGH", "MEDIUM", "LOW"},
        c \in {ConfidenceFloor - 1, ConfidenceFloor}}
    \cup {[timestamp |-> StartTime + 1, severity |-> "HIGH",
           confidence |-> FullConfidence]}

\* AlertManager.__init__, nothing else constructed
ThrottleInit ==
    /\ now = StartTime
    /\ correlation_window \in {LegacyWindow}
    /\ anomaly_detection_threshold = DefaultThreshold
    /\ interrupted = FALSE
    /\ fetch_error = "none"
    /\ pc = "idle"
    /\ results = NewResults(StartTime)
    /\ zabbix_data = <<>>
    /\ hyphenmon_data = <<>>
    /\ correlated_data = <<>>
    /\ anomalies = <<>>
    /\ idx = 1
    /\ decisions = <<>>
    /\ alerts_sent = 0
    /\ error_log = 0
    /\ alert_history = <<>>
    /\ alert_config = NoAlertConfig
    /\ DispatchConstructed

\* process_anomalies(anomalies) called with a batch: alerts_sent = 0
ProcessAnomaliesCall ==
    /\ pc = "idle"
    /\ \E batch \in SeqsUpTo(ThrottleEvents, MaxBatch) : anomalies' = batch
    /\ idx' = 1
    /\ decisions' = <<>>
    /\ alerts_sent' = 0
    /\ error_log' = 0
    /\ pc' = "alerting"
    /\ UNCHANGED <<now, correlation_window, anomaly_detection_threshold,
                   interrupted, fetch_error, results, zabbix_data,
                   hyphenmon_data, correlated_data, alert_history>>
    /\ UNCHANGED dispatchVars

\* process_anomalies returns alerts_sent to its direct caller; its other
\* locals are gone
ProcessAnomaliesExit ==
    /\ pc = "alerting"
    /\ idx > Len(anomalies)
    /\ pc' = "idle"
    /\ anomalies' = <<>>
    /\ idx' = 1
    /\ decisions' = <<>>
    /\ error_log' = 0
    /\ UNCHANGED <<now, correlation_window, anomaly_detection_threshold,
                   interrupted, fetch_error, results, zabbix_data,
                   hyphenmon_data, correlated_data, alerts_sent,
                   alert_history>>
    /\ UNCHANGED dispatchVars

\* _update_alert_history(anomaly) called directly at clock reading t; the
\* argument is kept in anomalies.
RecordAlert(anomaly, t) ==
    /\ pc = "idle"
    /\ now' = t
    /\ anomalies' = <<anomaly>>
    /\ alert_history' = _update_alert_history(alert_history, anomaly, t)
    /\ idx' = 1
    /\ decisions' = <<>>
    /\ UNCHANGED <<alerts_sent, error_log>>
    /\ UNCHANGED pipelineVars
    /\ UNCHANGED dispatchVars

ThrottleRecordAlert ==
    /\ Cardinality(DOMAIN alert_history) < MaxRecorded
    /\ \E anomaly \in ThrottleEvents, t \in ClockReads :
        RecordAlert(anomaly, t)

ThrottleNext ==
    \/ ProcessAnomaliesCall
    \/ ProcessAnomaly
    \/ ProcessAnomaliesExit
    \/ ThrottleRecordAlert

SpecThrottle == ThrottleInit /\ [][ThrottleNext]_vars

\* --------------------------------------- a history that has reached its cap
\* The history after n events of one severity were recorded, one per second,
\* each in the second it was detected.
FilledHistory(severity, n) ==
    [k \in {<<severity, StartTime + i>> : i \in 1..n} |-> k[2]]

\* What alert_history can hold once the manager has run for HistoryCap seconds
WarmHistories ==
    {FilledHistory(s, n) : s \in {"HIGH", "LOW"},
                           n \in {HistoryCap - 1, HistoryCap}}

HistoryInit ==
    /\ now = StartTime + HistoryCap
    /\ correlation_window \in {LegacyWindow}
    /\ anomaly_detection_threshold = DefaultThreshold
    /\ interrupted = FALSE
    /\ fetch_error = "none"
    /\ pc = "idle"
    /\ results = NewResults(StartTime)
    /\ zabbix_data = <<>>
    /\ hyphenmon_data = <<>>
    /\ correlated_data = <<>>
    /\ anomalies = <<>>
    /\ idx = 1
    /\ decisions = <<>>
    /\ alerts_sent = 0
    /\ error_log = 0
    /\ alert_history \in WarmHistories
    /\ alert_config = NoAlertConfig
    /\ DispatchConstructed

\* An event detected and recorded in the second t
HistoryRecordAlert ==
    \E t \in {now, now + 1},
       s \in {"CRITICAL", "HIGH", "MEDIUM", "LOW"} :
        /\ t <= StartTime + HistoryCap + MaxElapsed
        /\ RecordAlert([timestamp |-> t, severity |-> s,
                        confidence |-> FullConfidence], t)

HistoryNext == HistoryRecordAlert

SpecHistory == HistoryInit /\ [][HistoryNext]_vars

\* ---------------------------------- AnomalyDetectionEngine driven directly
\* error_rate values around the rule and around the severity bands, in tenths
ErrorRates == {4, 5, 6, 7, 8, 9}

\* An optional numeric field: missing, populated with 0, populated
OptionalValues == {<<>>, <<0>>, <<42>>}

\* Values of ProcessingConfig.anomaly_detection_threshold, in tenths
Thresholds == {3, 5, 7}

\* Correlated records as correlate_datasets builds them
ScoreRecords ==
    {[correlation_window |-> w,
      zabbix |-> [lastclock |-> <<StartTime>>, lastvalue |-> v],
      hyphenmon |-> [timestamp |-> <<StartTime>>, error_rate |-> <<e>>,
                     response_time_ms |-> r],
      correlation_timestamp |-> StartTime] :
        v \in OptionalValues, r \in OptionalValues, e \in ErrorRates,
        w \in {TightWindow, LegacyWindow}}

\* Batches of one record and of two records
ScoreBatches ==
    {<<r>> : r \in ScoreRecords}
    \cup {<<r1, r2>> : r1 \in ScoreRecords, r2 \in ScoreRecords}

\* AnomalyDetectionEngine.__init__, then a batch is handed to
\* detect_anomalies_batch
ScoreInit ==
    /\ alert_config = NoAlertConfig
    /\ now = StartTime
    /\ correlation_window \in {LegacyWindow}
    /\ anomaly_detection_threshold \in Thresholds
    /\ interrupted = FALSE
    /\ fetch_error = "none"
    /\ pc = "scoring"
    /\ results = NewResults(StartTime)
    /\ zabbix_data = <<>>
    /\ hyphenmon_data = <<>>
    /\ correlated_data \in ScoreBatches
    /\ anomalies = <<>>
    /\ idx = 1
    /\ decisions = <<>>
    /\ alerts_sent = 0
    /\ error_log = 0
    /\ alert_history = <<>>
    /\ DispatchConstructed

ScoreNext == DetectAnomaliesBatch

SpecScore == ScoreInit /\ [][ScoreNext]_vars

\* ------------------------- correlation and scoring run twice on one input
\* The two series are in hand and correlate_datasets is about to be called
RerunInit ==
    /\ alert_config = NoAlertConfig
    /\ now = StartTime
    /\ correlation_window \in Windows
    /\ anomaly_detection_threshold = DefaultThreshold
    /\ interrupted = FALSE
    /\ fetch_error = "none"
    /\ pc = "correlating"
    /\ \E z \in SeqsUpTo(ZabbixRecords, MaxRecords),
          h \in SeqsUpTo(HyphenmonRecords, MaxRecords) :
        /\ h # <<>>
        /\ Len(z) + Len(h) <= MaxRecords
        /\ DescendingOrder([i \in DOMAIN z |-> z[i].lastclock])
        /\ DescendingOrder([i \in DOMAIN h |-> h[i].timestamp])
        /\ zabbix_data = z
        /\ hyphenmon_data = h
        /\ results = [NewResults(StartTime) EXCEPT
                          !.zabbix_records = Len(z),
                          !.hyphenmon_records = Len(h)]
    /\ correlated_data = <<>>
    /\ anomalies = <<>>
    /\ idx = 1
    /\ decisions = <<>>
    /\ alerts_sent = 0
    /\ error_log = 0
    /\ alert_history = <<>>
    /\ DispatchConstructed

\* correlate_datasets is called again with the two series, and
\* detect_anomalies_batch again with the pairs of the first run, at a later
\* reading of the clock
RunAgain ==
    /\ UNCHANGED dispatchVars
    /\ pc \in {"alerting", "finally"}
    /\ ~correlate_datasets_raises(zabbix_data, hyphenmon_data)
    /\ \E t \in ClockReads :
        /\ now' = t
        /\ correlated_data' = correlate_datasets(zabbix_data, hyphenmon_data,
                                                 correlation_window, t)
        /\ anomalies' = detect_anomalies_batch(correlated_data,
                             [i \in 1..Len(correlated_data) |-> t])
    /\ pc' = "rerun"
    /\ UNCHANGED <<correlation_window, anomaly_detection_threshold,
                   interrupted, fetch_error, results, zabbix_data,
                   hyphenmon_data, idx, decisions, alerts_sent, error_log,
                   alert_history>>

RerunNext ==
    \/ CorrelateDatasets
    \/ DetectAnomaliesBatch
    \/ RunAgain

SpecRerun == RerunInit /\ [][RerunNext]_vars

\* ------------------------- batches with records that cannot be scored
\* error_rate of a pair: below the rule, above it twice, absent, and text
BatchErrorRates == {<<2>>, <<7>>, <<9>>, <<>>, BadText}

\* Correlated records; the lastclock tells two records of a batch apart
BatchRecords ==
    {[correlation_window |-> LegacyWindow,
      zabbix |-> [lastclock |-> <<c>>, lastvalue |-> <<42>>],
      hyphenmon |-> [timestamp |-> <<StartTime>>, error_rate |-> e,
                     response_time_ms |-> <<120>>],
      correlation_timestamp |-> StartTime] :
        c \in {StartTime, StartTime + 1}, e \in BatchErrorRates}

\* A batch of up to MaxRecords pairs is handed to detect_anomalies_batch
BatchInit ==
    /\ alert_config = NoAlertConfig
    /\ now = StartTime
    /\ correlation_window \in {LegacyWindow}
    /\ anomaly_detection_threshold = DefaultThreshold
    /\ interrupted = FALSE
    /\ fetch_error = "none"
    /\ pc = "scoring"
    /\ results = NewResults(StartTime)
    /\ zabbix_data = <<>>
    /\ hyphenmon_data = <<>>
    /\ correlated_data \in SeqsUpTo(BatchRecords, MaxRecords) \ {<<>>}
    /\ anomalies = <<>>
    /\ idx = 1
    /\ decisions = <<>>
    /\ alerts_sent = 0
    /\ error_log = 0
    /\ alert_history = <<>>
    /\ DispatchConstructed

BatchNext == DetectAnomaliesBatch

SpecBatch == BatchInit /\ [][BatchNext]_vars

\* ------------------------------------------------ src/main_processor.py
\* The legacy process_data loop, entered with the rows of its two queries:
\* seriesA latest first and not empty, seriesB not empty, every timestamp an
\* integer
LegacyInit ==
    /\ alert_config = NoAlertConfig
    /\ now = StartTime
    /\ correlation_window \in {LegacyWindow}
    /\ anomaly_detection_threshold = DefaultThreshold
    /\ interrupted = FALSE
    /\ fetch_error = "none"
    /\ pc = "legacy"
    /\ results = NewResults(StartTime)
    /\ zabbix_data \in
           {rows \in SeqsUpTo({z \in ZabbixRecords :
                                   Present(z.lastclock)
                                   /\ ~IsText(z.lastclock)}, MaxRecords) :
               /\ rows # <<>>
               /\ DescendingOrder([i \in DOMAIN rows |-> rows[i].lastclock])}
    /\ hyphenmon_data \in
           SeqsUpTo({h \in HyphenmonRecords :
                         Present(h.timestamp) /\ ~IsText(h.timestamp)},
                    MaxBatch) \ {<<>>}
    /\ correlated_data = <<>>
    /\ anomalies = <<>>
    /\ idx = 1
    /\ decisions = <<>>
    /\ alerts_sent = 0
    /\ error_log = 0
    /\ alert_history = <<>>
    /\ DispatchConstructed

\* One iteration of "for h_data in hyphenmon_data_list":
\* correlated_output = correlate(zabbix_data_list, h_data); the outputs are
\* kept in correlated_data, an empty one as no entry, and decisions records
\* whether the output was non-empty
LegacyCorrelate ==
    /\ pc = "legacy"
    /\ idx <= Len(hyphenmon_data)
    /\ LET correlated_output == correlate(zabbix_data, hyphenmon_data[idx])
       IN  /\ correlated_data' = correlated_data \o correlated_output
           /\ decisions' = Append(decisions, correlated_output # <<>>)
    /\ idx' = idx + 1
    /\ UNCHANGED <<now, correlation_window, anomaly_detection_threshold,
                   interrupted, fetch_error, pc, results, zabbix_data,
                   hyphenmon_data, anomalies, alerts_sent, error_log,
                   alert_history>>
    /\ UNCHANGED dispatchVars

LegacyNext == LegacyCorrelate

SpecLegacy == LegacyInit /\ [][LegacyNext]_vars

\* ------------------------------------------------------------ AlertingSystem
\* AlertChannel values
Channels == {"email", "slack", "webhook", "sms"}

\* Alert.source and Alert.title, as their characters.  The second and the
\* third pair differ and are joined to the same key.
SourceTitlePairs ==
    {<< <<"s">>, <<"x">> >>,
     << <<"s">>, <<"a", "_", "x">> >>,
     << <<"s", "_", "a">>, <<"x">> >>}

\* AlertSeverity values used: one with every default channel, one with email
\* alone
DispatchSeverities == {"high", "low"}

Alerts ==
    {[severity |-> s, source |-> p[1], title |-> p[2]] :
        p \in SourceTitlePairs, s \in DispatchSeverities}

\* The channels argument of send_alert: <<>> for None, <<list>> for a list
ChannelArguments ==
    {<<>>, << <<>> >>, << <<"email">> >>, << <<"sms", "slack">> >>,
     << <<"slack", "slack">> >>}

\* What the transport does with one delivery: it delivers, it fails inside
\* the sender's own try block, or an exception leaves _send_to_channel
Outcomes == {"delivered", "refused", "raised"}

\* Seconds between two dispatches, and seconds a delivery round may take
Delays == {0, 150, 300}

DeliveryTimes == {0, 150}

\* alert_key = f"{alert.source}_{alert.title}"
rate_key(alert) == alert.source \o <<"_">> \o alert.title

\* Mutant: the window is closed at its end (<= for <)
is_rate_limited_inclusive(alert, sent, current_time) ==
    LET key == rate_key(alert)
    IN  key \in DOMAIN sent /\ current_time - sent[key] <= rate_limit_window

\* AlertingSystem._is_rate_limited(alert), time.time() being current_time
_is_rate_limited(alert, sent, current_time) ==
    LET key == rate_key(alert)
    IN  key \in DOMAIN sent /\ current_time - sent[key] < rate_limit_window

\* AlertingSystem._track_sent_alert(alert), time.time() being current_time
_track_sent_alert(sent, alert, current_time) ==
    LET key == rate_key(alert)
        tracked == [k \in DOMAIN sent \cup {key} |->
                       IF k = key THEN current_time ELSE sent[k]]
        kept == {k \in DOMAIN tracked :
                    current_time - tracked[k] < rate_limit_window * PruneFactor}
    IN  [k \in kept |-> tracked[k]]

\* Mutant: slack is selected whatever the severity
get_default_channels_flat(severity, config) ==
    (IF config.email_enabled THEN <<"email">> ELSE <<>>)
    \o (IF config.slack_enabled THEN <<"slack">> ELSE <<>>)
    \o (IF config.webhook_enabled /\ severity \in {"critical", "high"}
        THEN <<"webhook">> ELSE <<>>)

\* Mutant: the alert is tracked whatever the outcome of the deliveries
track_always(success, sent, alert, current_time) ==
    _track_sent_alert(sent, alert, current_time)

\* "if results['success']: self._track_sent_alert(alert)" of send_alert
track_if_success(success, sent, alert, current_time) ==
    IF success THEN _track_sent_alert(sent, alert, current_time) ELSE sent

\* AlertingSystem._get_default_channels(severity)
_get_default_channels(severity, config) ==
    (IF config.email_enabled THEN <<"email">> ELSE <<>>)
    \o (IF config.slack_enabled /\ severity \in {"critical", "high", "medium"}
        THEN <<"slack">> ELSE <<>>)
    \o (IF config.webhook_enabled /\ severity \in {"critical", "high"}
        THEN <<"webhook">> ELSE <<>>)

\* The enabled flag _send_email, _send_slack and _send_webhook test first
channel_enabled(channel, config) ==
    CASE channel = "email" -> config.email_enabled
      [] channel = "slack" -> config.slack_enabled
      [] channel = "webhook" -> config.webhook_enabled
      [] OTHER -> FALSE

\* AlertingSystem._send_to_channel(alert, channel) when it returns: the
\* result dictionary of the channel's sender
_send_to_channel(channel, config, outcome) ==
    IF channel = "sms"
    THEN [success |-> FALSE, error |-> "SMS integration not implemented"]
    ELSE IF ~channel_enabled(channel, config)
    THEN [success |-> FALSE, error |-> "not configured"]
    ELSE IF outcome = "delivered"
    THEN [success |-> TRUE, error |-> ""]
    ELSE [success |-> FALSE, error |-> "delivery failed"]

\* Whether the call of _send_to_channel raises instead of returning
send_to_channel_raises(channel, outcome) ==
    channel # "sms" /\ outcome = "raised"

\* The outcomes the transport can have for one channel: nothing is handed to
\* it for sms, and nothing can be delivered on a channel that is switched off
admissible(channel, config, outcome) ==
    IF channel = "sms" THEN outcome = "refused"
    ELSE channel_enabled(channel, config) \/ outcome # "delivered"

\* Mutant: success needs more than one channel
overall_success_plural(total_sent) == total_sent > 1

\* results['success'] = results['total_sent'] > 0
overall_success(total_sent) == total_sent > 0

\* Mutant: no try/except around _send_to_channel, the loop ends at the first
\* exception
RECURSIVE send_through_until_raise(_, _, _, _)
send_through_until_raise(channels, outcomes, config, acc) ==
    IF channels = <<>> THEN acc
    ELSE IF send_to_channel_raises(Head(channels), Head(outcomes))
    THEN [acc EXCEPT !.attempts =
                        Append(@, [channel |-> Head(channels),
                                   success |-> FALSE])]
    ELSE LET r == _send_to_channel(Head(channels), config, Head(outcomes))
         IN  send_through_until_raise(Tail(channels), Tail(outcomes), config,
                 [channels |-> [c \in DOMAIN acc.channels \cup {Head(channels)}
                                   |-> IF c = Head(channels) THEN r
                                       ELSE acc.channels[c]],
                  total_sent |-> IF r.success THEN acc.total_sent + 1
                                 ELSE acc.total_sent,
                  attempts |-> Append(acc.attempts,
                                      [channel |-> Head(channels),
                                       success |-> r.success])])

\* "for channel in channels" of send_alert: each channel is handed to
\* _send_to_channel; its result, or the failure entry built from the
\* exception it raised, is stored under the channel's name.
RECURSIVE send_through(_, _, _, _)
send_through(channels, outcomes, config, acc) ==
    IF channels = <<>> THEN acc
    ELSE LET channel == Head(channels)
             raised == send_to_channel_raises(channel, Head(outcomes))
             r == IF raised
                  THEN [success |-> FALSE, error |-> "exception"]
                  ELSE _send_to_channel(channel, config, Head(outcomes))
         IN  send_through(Tail(channels), Tail(outcomes), config,
                 [channels |-> [c \in DOMAIN acc.channels \cup {channel} |->
                                   IF c = channel THEN r ELSE acc.channels[c]],
                  total_sent |-> IF ~raised /\ r.success
                                 THEN acc.total_sent + 1 ELSE acc.total_sent,
                  attempts |-> Append(acc.attempts,
                                      [channel |-> channel,
                                       success |-> r.success])])

\* AlertingSystem constructed with a configuration that carries the flags
DispatchInit ==
    /\ now = StartTime
    /\ correlation_window \in {LegacyWindow}
    /\ anomaly_detection_threshold = DefaultThreshold
    /\ interrupted = FALSE
    /\ fetch_error = "none"
    /\ pc = "idle"
    /\ results = NewResults(StartTime)
    /\ zabbix_data = <<>>
    /\ hyphenmon_data = <<>>
    /\ correlated_data = <<>>
    /\ anomalies = <<>>
    /\ idx = 1
    /\ decisions = <<>>
    /\ alerts_sent = 0
    /\ error_log = 0
    /\ alert_history = <<>>
    /\ alert_config \in AlertConfigs
    /\ DispatchConstructed

\* AlertingSystem.send_alert(alert, channels): the whole call.  t is the clock
\* read of _is_rate_limited, done the one of _track_sent_alert.
send_alert(alert, argument, d) ==
    /\ LET t == now + d
        IN  /\ t <= StartTime + MaxDispatchElapsed
            /\ IF _is_rate_limited(alert, sent_alerts, t)
               THEN /\ send_call' = [alert |-> alert, argument |-> argument,
                                     at |-> t, channels |-> <<>>,
                                     outcomes |-> <<>>]
                    /\ send_result' = [rate_limited |-> TRUE,
                                       channels |-> <<>>]
                    /\ attempted' = <<>>
                    /\ now' = t
                    /\ UNCHANGED <<sent_alerts, last_success>>
               ELSE \E channels \in
                           {IF argument = <<>>
                            THEN _get_default_channels(alert.severity,
                                                       alert_config)
                            ELSE argument[1]} :
                    \E outcomes \in
                           {o \in [1..Len(channels) -> Outcomes] :
                               \A i \in 1..Len(channels) :
                                   admissible(channels[i], alert_config,
                                              o[i])} :
                    \E r \in {send_through(channels, outcomes, alert_config,
                                  [channels |-> <<>>, total_sent |-> 0,
                                   attempts |-> <<>>])} :
                    \E done \in {t + e : e \in DeliveryTimes} :
                        /\ done <= StartTime + MaxDispatchElapsed
                        /\ send_call' = [alert |-> alert,
                                         argument |-> argument,
                                         at |-> t, channels |-> channels,
                                         outcomes |-> outcomes]
                        /\ send_result' =
                               [alert |-> alert, channels |-> r.channels,
                                success |-> overall_success(r.total_sent),
                                total_sent |-> r.total_sent]
                        /\ attempted' = r.attempts
                        /\ now' = done
                        /\ sent_alerts' =
                               track_if_success(
                                   overall_success(r.total_sent),
                                   sent_alerts, alert, done)
                        /\ last_success' =
                               IF overall_success(r.total_sent)
                               THEN [p \in DOMAIN last_success
                                           \cup {<<alert.source,
                                                   alert.title>>} |->
                                        IF p = <<alert.source, alert.title>>
                                        THEN done ELSE last_success[p]]
                               ELSE last_success
    /\ UNCHANGED pipelineVars
    /\ UNCHANGED throttleVars
    /\ UNCHANGED alert_config

\* send_alert called with an alert, a channels argument and after a delay
\* drawn from the dispatcher's inputs
SendAlert ==
    \E alert \in Alerts, argument \in ChannelArguments, d \in Delays :
        send_alert(alert, argument, d)

DispatchNext == SendAlert

SpecDispatch == DispatchInit /\ [][DispatchNext]_vars

\* ------------------------------- _track_sent_alert after a long silence
\* Alerts with three different keys
PruneAlerts ==
    {[severity |-> "high", source |-> <<"s">>, title |-> <<x>>] :
        x \in {"x", "y", "z"}}

\* When the entries of the history were written: in the first seconds of the
\* process, and rate_limit_window later
RecordedAt ==
    {StartTime, StartTime + 1, StartTime + 2, StartTime + rate_limit_window}

\* sent_alerts as earlier successful dispatches have left it; no dispatch
\* has succeeded since, and the clock has gone on
PruneInit ==
    /\ now = StartTime + MaxSilence - 1
    /\ correlation_window \in {LegacyWindow}
    /\ anomaly_detection_threshold = DefaultThreshold
    /\ interrupted = FALSE
    /\ fetch_error = "none"
    /\ pc = "idle"
    /\ results = NewResults(StartTime)
    /\ zabbix_data = <<>>
    /\ hyphenmon_data = <<>>
    /\ correlated_data = <<>>
    /\ anomalies = <<>>
    /\ idx = 1
    /\ decisions = <<>>
    /\ alerts_sent = 0
    /\ error_log = 0
    /\ alert_history = <<>>
    /\ alert_config \in {NoAlertConfig}
    /\ \E keys \in SUBSET {rate_key(a) : a \in PruneAlerts} :
           sent_alerts \in [keys -> RecordedAt]
    /\ send_call = <<>>
    /\ send_result = <<>>
    /\ attempted = <<>>
    /\ last_success = <<>>

\* A dispatch of send_alert has succeeded and _track_sent_alert(alert) runs
TrackSentAlert ==
    /\ \E alert \in PruneAlerts, d \in {0, 1} :
        /\ now + d <= StartTime + MaxSilence
        /\ now' = now + d
        /\ sent_alerts' = _track_sent_alert(sent_alerts, alert, now + d)
        /\ send_call' = [alert |-> alert, argument |-> <<>>, at |-> now + d,
                         channels |-> <<>>, outcomes |-> <<>>]
    /\ UNCHANGED pipelineVars
    /\ UNCHANGED throttleVars
    /\ UNCHANGED <<alert_config, send_result, attempted, last_success>>

PruneNext == TrackSentAlert

SpecPrune == PruneInit /\ [][PruneNext]_vars

\* ------------------------------------- send_alert without a channels argument
\* AlertSeverity values, lowest first
Severities == <<"info", "low", "medium", "high", "critical">>

\* Every setting of the three enabled flags
AllAlertConfigs ==
    [email_enabled : BOOLEAN, slack_enabled : BOOLEAN,
     webhook_enabled : BOOLEAN]

ChannelsInit ==
    /\ now = StartTime
    /\ correlation_window \in {LegacyWindow}
    /\ anomaly_detection_threshold = DefaultThreshold
    /\ interrupted = FALSE
    /\ fetch_error = "none"
    /\ pc = "idle"
    /\ results = NewResults(StartTime)
    /\ zabbix_data = <<>>
    /\ hyphenmon_data = <<>>
    /\ correlated_data = <<>>
    /\ anomalies = <<>>
    /\ idx = 1
    /\ decisions = <<>>
    /\ alerts_sent = 0
    /\ error_log = 0
    /\ alert_history = <<>>
    /\ alert_config \in AllAlertConfigs
    /\ DispatchConstructed

\* send_alert(alert): channels is None and _get_default_channels selects
SendAlertByDefault ==
    \E i \in DOMAIN Severities, d \in {0, rate_limit_window} :
        send_alert([severity |-> Severities[i], source |-> <<"s">>,
                    title |-> <<"x">>], <<>>, d)

ChannelsNext == SendAlertByDefault

SpecChannels == ChannelsInit /\ [][ChannelsNext]_vars

\* ================================================================== claims

\* A correlated pair of z and h is in the output of correlate_datasets
Emitted(z, h) ==
    \E k \in DOMAIN correlated_data :
        /\ correlated_data[k].zabbix = z
        /\ correlated_data[k].hyphenmon = h

\* C1: for every configured window W, correlate_datasets emits a pair for a
\* seriesA record and a seriesB record if and only if both carry a timestamp
\* and the two timestamps differ by at most W.
C1_PairIffWithinWindow ==
    pc \notin {"fetching", "correlating"} =>
        \A i \in DOMAIN zabbix_data, j \in DOMAIN hyphenmon_data :
            LET z == zabbix_data[i]
                h == hyphenmon_data[j]
            IN  Emitted(z, h) <=>
                    /\ Present(z.lastclock)
                    /\ Present(h.timestamp)
                    /\ Abs(Val(z.lastclock) - Val(h.timestamp))
                           <= correlation_window

\* C2: the throttle admits at most one non-CRITICAL event per (severity,
\* timestamp) key: once an event with a key was admitted, a later
\* non-CRITICAL event of the batch with the same key is rejected (nothing is
\* evicted while the history is below its cap).
C2_OneAdmissionPerKey ==
    \A i, j \in DOMAIN decisions :
        ( /\ i < j
          /\ decisions[i]
          /\ alert_key(anomalies[i]) = alert_key(anomalies[j])
          /\ anomalies[j].severity # "CRITICAL"
          /\ Cardinality(DOMAIN alert_history) < HistoryCap )
        => ~decisions[j]

\* C9: when process_anomalies has handled an event that _should_send_alert
\* admitted, the event's key is in alert_history, mapped to the current
\* wall-clock time, before the next event is handled.
C9_AdmittedKeyRecorded ==
    (pc = "alerting" /\ decisions # <<>> /\ decisions[Len(decisions)]) =>
        LET key == alert_key(anomalies[Len(decisions)])
        IN  /\ key \in DOMAIN alert_history
            /\ alert_history[key] = now

\* C10: when a cycle completes, the dispatcher was invoked for every event
\* the throttle admitted during the cycle, and every channel it was asked to
\* use got a delivery attempt.
C10_AdmittedEventsDispatched ==
    (pc = "done" /\ \E i \in DOMAIN decisions : decisions[i]) =>
        /\ send_call # <<>>
        /\ send_result # <<>>
        /\ "rate_limited" \notin DOMAIN send_result =>
               Range(attempted) = Range(send_call.channels)

\* C3: _should_send_alert returns true for every CRITICAL event with
\* confidence >= 0.3, whatever alert_history holds, the event's own key
\* included.
C3_CriticalNeverSuppressed ==
    \A i \in DOMAIN decisions :
        (anomalies[i].severity = "CRITICAL"
         /\ anomalies[i].confidence >= ConfidenceFloor) => decisions[i]

\* C3 witness: a CRITICAL event was admitted while its own key was recorded
C3_Witness ==
    /\ pc = "alerting"
    /\ \E i \in DOMAIN decisions :
        /\ anomalies[i].severity = "CRITICAL"
        /\ decisions[i]
        /\ alert_key(anomalies[i]) \in DOMAIN alert_history

\* C4, the decision: every event with confidence < 0.3 is rejected, whatever
\* its severity and whatever alert_history holds.
C4_Rejected ==
    \A i \in DOMAIN decisions :
        anomalies[i].confidence < ConfidenceFloor => ~decisions[i]

\* C4, the frame: handling an event with confidence < 0.3 leaves
\* alert_history as it was.
C4_HistoryKept ==
    (pc = "alerting" /\ idx <= Len(anomalies) /\ idx' = idx + 1
     /\ anomalies[idx].confidence < ConfidenceFloor)
    => alert_history' = alert_history

\* C4: events with confidence < 0.3 are rejected for every severity and every
\* history, and rejecting one leaves alert_history unchanged.
C4_LowConfidenceRejected == [](C4_Rejected) /\ [][C4_HistoryKept]_vars

\* C4 witness: a CRITICAL event below the floor was rejected while the
\* history held entries
C4_Witness ==
    /\ pc = "alerting"
    /\ alert_history # <<>>
    /\ \E i \in DOMAIN decisions :
        /\ anomalies[i].severity = "CRITICAL"
        /\ anomalies[i].confidence < ConfidenceFloor
        /\ ~decisions[i]

\* What one _update_alert_history call must do according to C8
C8_Step ==
    LET key == alert_key(anomalies'[1])
        evicted == DOMAIN alert_history \ DOMAIN alert_history'
    IN  /\ key \in DOMAIN alert_history'
        /\ \A k \in evicted, j \in DOMAIN alert_history' :
               alert_history[k] <= alert_history'[j]
        /\ Cardinality(DOMAIN alert_history') =
               Min(HistoryCap, Cardinality(DOMAIN alert_history \cup {key}))

\* C8: when recording a key makes alert_history exceed 100 entries, the
\* entries removed are those recorded longest ago, so that the 100 most
\* recently recorded keys remain; a key recorded later than an evicted key is
\* never evicted before it.
C8_EvictsOldestRecorded == [][C8_Step]_vars

\* A send_alert call has returned without being rate-limited
Dispatched == send_call # <<>> /\ "rate_limited" \notin DOMAIN send_result

\* The call just made answers rate_limited=true and hands nothing to a channel
\* when its (source, title) pair succeeded less than rate_limit_window ago
C5_WithinWindow ==
    LET alert == send_call'.alert
        pair == <<alert.source, alert.title>>
    IN  (/\ pair \in DOMAIN last_success
         /\ send_call'.at - last_success[pair] < rate_limit_window)
        => /\ send_result' = [rate_limited |-> TRUE, channels |-> <<>>]
           /\ attempted' = <<>>

\* The call just made is attempted when the last success of its
\* (source, title) pair is rate_limit_window or more in the past
C5_WindowElapsed ==
    LET alert == send_call'.alert
        pair == <<alert.source, alert.title>>
    IN  (/\ pair \in DOMAIN last_success
         /\ send_call'.at - last_success[pair] >= rate_limit_window)
        => /\ "rate_limited" \notin DOMAIN send_result'
           /\ Len(attempted') = Len(send_call'.channels)

\* C5, first half: within rate_limit_window of a success of the same
\* (source, title), send_alert returns rate_limited=true with an empty
\* channels result and attempts no delivery.
C5_LimitedWithinWindow == [][C5_WithinWindow]_vars

\* C5: within rate_limit_window (300 s) of a successful send_alert for the
\* same source and title, send_alert returns rate_limited=true with an empty
\* channels result and attempts no delivery; once the window has elapsed the
\* same (source, title) is attempted again.
C5_RateLimitPerSourceTitle == [][C5_WithinWindow /\ C5_WindowElapsed]_vars

\* The last position at which a channel stands in the requested list
LastRequest(channel) ==
    CHOOSE i \in DOMAIN send_call.channels :
        /\ send_call.channels[i] = channel
        /\ \A j \in DOMAIN send_call.channels :
              send_call.channels[j] = channel => j <= i

\* C6: in a send_alert call that is not rate-limited every channel of the
\* requested list is attempted, in order, whatever happened to the channels
\* before it; a failure or an exception of a channel is recorded as
\* {success: false, error} under that channel, the call returns a result, and
\* the result holds one entry per requested channel.
C6_EveryChannelAttempted ==
    Dispatched =>
        /\ Len(attempted) = Len(send_call.channels)
        /\ \A i \in DOMAIN attempted :
              /\ attempted[i].channel = send_call.channels[i]
              /\ send_call.outcomes[i] # "delivered" => ~attempted[i].success
        /\ DOMAIN send_result.channels = Range(send_call.channels)
        /\ \A c \in Range(send_call.channels) :
              send_call.outcomes[LastRequest(c)] # "delivered"
              => /\ send_result.channels[c].success = FALSE
                 /\ send_result.channels[c].error # ""

\* C6 happens: the first channel raised and a later one was still delivered
C6_Witness ==
    /\ Dispatched
    /\ Len(send_call.channels) >= 2
    /\ send_call.channels[1] # send_call.channels[2]
    /\ send_call.outcomes[1] = "raised"
    /\ send_result.channels[send_call.channels[1]].error = "exception"
    /\ attempted[2].success

\* C7: for every send_alert call that is not rate-limited, success is true if
\* and only if at least one attempted channel returned success; with no
\* channel attempted or every channel failed it is false.
C7_SuccessIffOneChannel ==
    Dispatched =>
        (send_result.success <=> \E i \in DOMAIN attempted : attempted[i].success)

\* C7 happens: one channel failed, another succeeded, the call succeeded
C7_Witness ==
    /\ Dispatched
    /\ send_result.success
    /\ \E i \in DOMAIN attempted : ~attempted[i].success
    /\ \E i \in DOMAIN attempted : attempted[i].success

\* A call with no channel at all, and one whose channels all failed
C7_NoneOrAllFailed ==
    /\ Dispatched
    /\ ~send_result.success
    /\ attempted # <<>>

\* detect_anomalies_batch has returned
Scored == pc \in {"alerting", "finally"}

\* The indicator of an event: the error_rate of its seriesB record
Indicator(event) == Val(event.correlated_data.hyphenmon.error_rate)

\* C11: the severity of an emitted event is CRITICAL when error_rate >= 0.8,
\* HIGH when it is >= 0.6 and < 0.8, MEDIUM when it is >= 0.4 and < 0.6, and
\* LOW otherwise.
C11_SeverityBands ==
    \A i \in DOMAIN anomalies :
        anomalies[i].severity =
            IF Indicator(anomalies[i]) >= CriticalAbove THEN "CRITICAL"
            ELSE IF Indicator(anomalies[i]) >= HighAbove THEN "HIGH"
            ELSE IF Indicator(anomalies[i]) >= MediumAbove THEN "MEDIUM"
            ELSE "LOW"

\* C12: a correlated pair is flagged (one event with one finding message) if
\* and only if the error_rate of its seriesB record exceeds the configured
\* anomaly_detection_threshold, for every configured threshold.
C12_FlaggedIffAboveThreshold ==
    Scored =>
        \A i \in DOMAIN correlated_data :
            (\E k \in DOMAIN anomalies :
                /\ anomalies[k].correlated_data = correlated_data[i]
                /\ Len(anomalies[k].alerts) = 1)
            <=> Val(correlated_data[i].hyphenmon.error_rate)
                    > anomaly_detection_threshold

\* 0.5 + 0.2*[response_time_ms populated] + 0.2*[lastvalue populated]
\* + 0.1*[window <= 5], clamped to 1.0, in tenths
StatedConfidence(record) ==
    Min(FullConfidence,
        BaseConfidence
        + (IF Present(record.hyphenmon.response_time_ms)
           THEN FieldBonus ELSE 0)
        + (IF Present(record.zabbix.lastvalue) THEN FieldBonus ELSE 0)
        + (IF record.correlation_window <= TightWindow
           THEN TightWindowBonus ELSE 0))

\* C13: for every emitted event, confidence = min(1.0, 0.5
\* + 0.2*[response_time_ms populated] + 0.2*[lastvalue populated]
\* + 0.1*[correlation window <= 5 seconds]), and so lies in [0, 1].
C13_ConfidenceFormula ==
    \A i \in DOMAIN anomalies :
        /\ anomalies[i].confidence = StatedConfidence(anomalies[i].correlated_data)
        /\ anomalies[i].confidence \in 0..FullConfidence

\* The part of C13 that does not depend on what "populated" means
C13_ConfidenceInRange ==
    \A i \in DOMAIN anomalies : anomalies[i].confidence \in 0..FullConfidence

\* C13 for the pairs none of whose optional fields is populated with 0
C13_FormulaForNonZeroFields ==
    \A i \in DOMAIN anomalies :
        LET record == anomalies[i].correlated_data
        IN  (/\ record.hyphenmon.response_time_ms # <<0>>
             /\ record.zabbix.lastvalue # <<0>>)
            => anomalies[i].confidence = StatedConfidence(record)

\* Record b is record a with absent optional fields populated, a tighter
\* window, or both, and nothing else changed
Improves(a, b) ==
    /\ a # b
    /\ b.hyphenmon.timestamp = a.hyphenmon.timestamp
    /\ b.hyphenmon.error_rate = a.hyphenmon.error_rate
    /\ b.zabbix.lastclock = a.zabbix.lastclock
    /\ b.correlation_timestamp = a.correlation_timestamp
    /\ \/ b.hyphenmon.response_time_ms = a.hyphenmon.response_time_ms
       \/ ~Present(a.hyphenmon.response_time_ms)
    /\ \/ b.zabbix.lastvalue = a.zabbix.lastvalue
       \/ ~Present(a.zabbix.lastvalue)
    /\ b.correlation_window <= a.correlation_window

\* C14: confidence is non-decreasing in data quality: when a pair differs
\* from another only by a previously absent optional field being populated,
\* or by a tighter correlation window, its confidence is greater or equal.
C14_ConfidenceMonotone ==
    \A i, j \in DOMAIN anomalies :
        Improves(anomalies[i].correlated_data, anomalies[j].correlated_data)
        => anomalies[j].confidence >= anomalies[i].confidence

\* C14 happens: one batch holds a pair and its improvement, scored higher
C14_Witness ==
    /\ Scored
    /\ \E i, j \in DOMAIN anomalies :
        /\ Improves(anomalies[i].correlated_data,
                    anomalies[j].correlated_data)
        /\ anomalies[j].confidence > anomalies[i].confidence

\* C15: every event returned by detect_anomalies_batch has a non-empty list
\* of finding messages, and a pair for which the rule produces no finding
\* message yields no event.
C15_EventsHaveFindings ==
    Scored =>
        /\ \A k \in DOMAIN anomalies : anomalies[k].alerts # <<>>
        /\ \A i \in DOMAIN correlated_data :
              detect_anomalies(correlated_data[i]) = <<>>
              => \A k \in DOMAIN anomalies :
                    anomalies[k].correlated_data # correlated_data[i]

\* C15 happens: of two pairs one is flagged and one is not, one event
C15_Witness ==
    /\ Scored
    /\ Len(correlated_data) = 2
    /\ Len(anomalies) = 1
    /\ detect_anomalies(correlated_data[1]) = <<>>
    /\ anomalies[1].correlated_data = correlated_data[2]

\* C16: every pair in the output of correlate_datasets satisfies
\* |lastclock - timestamp| <= correlation_window, the window value stored in
\* that pair.
C16_PairsWithinStoredWindow ==
    \A k \in DOMAIN correlated_data :
        LET pair == correlated_data[k]
        IN  /\ Len(pair.zabbix.lastclock) = 1
            /\ Len(pair.hyphenmon.timestamp) = 1
            /\ Abs(Val(pair.zabbix.lastclock) - Val(pair.hyphenmon.timestamp))
                   <= pair.correlation_window

\* C16 happens: a pair at the very edge of its window was emitted
C16_Witness ==
    \E k \in DOMAIN correlated_data :
        LET pair == correlated_data[k]
        IN  Abs(Val(pair.zabbix.lastclock) - Val(pair.hyphenmon.timestamp))
                = pair.correlation_window

\* No fetched record has text for a timestamp
WellFormed ==
    /\ \A i \in DOMAIN zabbix_data : ~IsText(zabbix_data[i].lastclock)
    /\ \A j \in DOMAIN hyphenmon_data : ~IsText(hyphenmon_data[j].timestamp)

\* The seriesA record i is within the configured window of seriesB record j
WithinWindow(i, j) ==
    /\ Present(zabbix_data[i].lastclock)
    /\ Present(hyphenmon_data[j].timestamp)
    /\ Abs(Val(zabbix_data[i].lastclock) - Val(hyphenmon_data[j].timestamp))
           <= correlation_window

\* The place of the pair (j, i) in an output that lists the matches in seriesB
\* order and, for one seriesB record, in seriesA order
Place(i, j) ==
    Cardinality({p \in (DOMAIN hyphenmon_data) \X (DOMAIN zabbix_data) :
                    /\ WithinWindow(p[2], p[1])
                    /\ p[1] < j \/ (p[1] = j /\ p[2] <= i)})

\* C17: for each seriesB record the pairs emitted are exactly the seriesA
\* records within the window of it, counted with multiplicity; the output
\* lists them in seriesB order and, for one seriesB record, in seriesA order.
C17_EveryMatchEmittedInOrder ==
    (pc \notin {"fetching", "correlating"} /\ WellFormed) =>
        /\ Len(correlated_data) =
               Cardinality({p \in (DOMAIN hyphenmon_data) \X (DOMAIN zabbix_data) :
                               WithinWindow(p[2], p[1])})
        /\ \A j \in DOMAIN hyphenmon_data, i \in DOMAIN zabbix_data :
              WithinWindow(i, j) =>
                  /\ Place(i, j) \in DOMAIN correlated_data
                  /\ correlated_data[Place(i, j)].zabbix = zabbix_data[i]
                  /\ correlated_data[Place(i, j)].hyphenmon = hyphenmon_data[j]

\* C17 for the windows the fixed tolerance of correlate() does not cut
C17_UpToLegacyWindow ==
    correlation_window <= LegacyWindow => C17_EveryMatchEmittedInOrder

\* What the cycle-level handler must make of an exception of
\* correlate_datasets
C18_Caught ==
    (/\ pc = "correlating"
     /\ pc' # pc
     /\ correlate_datasets_raises(zabbix_data, hyphenmon_data))
    => /\ pc' = "finally"
       /\ ~results'.success
       /\ results'.errors # <<>>

\* In a summary that was returned, success is true exactly when errors is
\* empty, and the finally block has run
C18_Summary ==
    pc \in {"done", "sleeping"} =>
        /\ results.success <=> results.errors = <<>>
        /\ Present(results.end_time)

\* C18: an exception raised inside process_data_cycle outside the per-pair
\* and per-anomaly handlers is caught at the cycle level: the call returns a
\* summary with success=false and the error recorded in errors; in every
\* summary returned, success is true if and only if errors is empty.
C18_CycleErrorsCaught == [](C18_Summary) /\ [][C18_Caught]_vars

\* C18 happens: a cycle whose correlation raised has returned its summary
C18_Witness ==
    /\ pc = "done"
    /\ correlate_datasets_raises(zabbix_data, hyphenmon_data)
    /\ ~results.success
    /\ results.errors # <<>>

\* One step of run_continuous: after a cycle the loop sleeps, after the sleep
\* it starts a cycle, and it stops only on the stop signal
C19_Step ==
    /\ pc = "done" => (pc' \in {"done", "sleeping"} \/ interrupted')
    /\ pc = "sleeping" => (pc' \in {"sleeping", "fetching"} \/ interrupted')
    /\ pc' = "stopped" => interrupted'

\* C19: in run_continuous, after every cycle, whether it succeeded or failed,
\* the loop sleeps and then starts another cycle; a failed cycle never ends
\* the loop, only the stop signal (KeyboardInterrupt) does.
C19_LoopGoesOn ==
    /\ [][C19_Step]_vars
    /\ (pc = "done") ~> (pc = "fetching" \/ interrupted)

\* C19 happens: the loop sleeps after a cycle that failed
C19_Witness ==
    /\ pc = "sleeping"
    /\ ~results.success
    /\ results.errors # <<>>
    /\ ~interrupted

\* C20: a single bad record (a timestamp that is present but not convertible
\* to an integer) never blocks unrelated pairs: the pairs formed by the
\* well-formed records of the same cycle, within the configured window and
\* the tolerance of correlate(), are still correlated and reported.
C20_BadRecordBlocksNothing ==
    pc \notin {"fetching", "correlating", "stopped"} =>
        \A i \in DOMAIN zabbix_data, j \in DOMAIN hyphenmon_data :
            (/\ ~IsText(zabbix_data[i].lastclock)
             /\ ~IsText(hyphenmon_data[j].timestamp)
             /\ Truthy(zabbix_data[i].lastclock)
             /\ Truthy(hyphenmon_data[j].timestamp)
             /\ Abs(Val(zabbix_data[i].lastclock)
                    - Val(hyphenmon_data[j].timestamp))
                    <= Min(correlation_window, LegacyWindow))
            => /\ Emitted(zabbix_data[i], hyphenmon_data[j])
               /\ results.correlations >= 1

\* C20 without a bad record in the cycle
C20_WhenWellFormed == WellFormed => C20_BadRecordBlocksNothing

\* process_data_cycle has returned its summary
Returned == pc \in {"done", "sleeping"}

\* C21: a cycle in which seriesB is empty, or in which no pair correlates, or
\* in which no pair is flagged ends with success=true and an empty errors
\* list, the metrics of the stages that did not run or produced nothing
\* being 0.
C21_NothingToReportSucceeds ==
    (Returned /\ (hyphenmon_data = <<>> \/ correlated_data = <<>>
                  \/ anomalies = <<>>))
    => /\ results.success
       /\ results.errors = <<>>
       /\ results.anomalies = 0
       /\ results.alerts_sent = 0
       /\ (hyphenmon_data = <<>> \/ correlated_data = <<>>)
              => results.correlations = 0
       /\ hyphenmon_data = <<>> => results.hyphenmon_records = 0

\* C21 for cycles all of whose timestamps are integers
C21_WhenWellFormed == WellFormed => C21_NothingToReportSucceeds

\* Every metric of the summary is 0
ZeroMetrics ==
    /\ results.zabbix_records = 0
    /\ results.hyphenmon_records = 0
    /\ results.correlations = 0
    /\ results.anomalies = 0
    /\ results.alerts_sent = 0

\* C22: if the data fetch fails (the connection cannot be obtained or a query
\* raises), fetch_recent_data returns two empty sequences instead of
\* propagating the error, and the cycle completes with all metrics zero,
\* success=true and an empty errors list.
C22_FailedFetchIsEmptyCycle ==
    (fetch_error # "none" /\ pc \notin {"idle", "fetching", "stopped"})
    => /\ zabbix_data = <<>>
       /\ hyphenmon_data = <<>>
       /\ pc \in {"finally", "done", "sleeping"}
       /\ ZeroMetrics
       /\ results.success
       /\ results.errors = <<>>

\* C22 happens: a cycle whose zabbix query raised has returned its summary
C22_Witness ==
    /\ pc = "done"
    /\ fetch_error = "query"
    /\ results.success
    /\ ZeroMetrics

\* The cycle went past the correlation step and returned its summary
RanAllSteps == Returned /\ correlated_data # <<>>

\* Events of the cycle for which _should_send_alert answered True
Admitted == Cardinality({i \in DOMAIN decisions : decisions[i]})

\* The record, pair and event counts of the summary
C23_CountsBeforeAlerts ==
    RanAllSteps =>
        /\ results.zabbix_records = Len(zabbix_data)
        /\ results.hyphenmon_records = Len(hyphenmon_data)
        /\ results.correlations = Len(correlated_data)
        /\ results.anomalies = Len(anomalies)

\* C23: in the summary of a cycle that ran all steps, zabbix_records and
\* hyphenmon_records equal the sizes of the two fetched series, correlations
\* the number of pairs emitted, anomalies the number of events emitted, and
\* alerts_sent the number of events the throttle admitted in that cycle.
C23_SummaryCounts ==
    /\ C23_CountsBeforeAlerts
    /\ RanAllSteps => results.alerts_sent = Admitted

\* The records and the window of end-to-end scenario A
ScenarioA ==
    /\ correlation_window = 10
    /\ zabbix_data = <<[lastclock |-> <<1005>>, lastvalue |-> <<42>>]>>
    /\ hyphenmon_data = <<[timestamp |-> <<1000>>, error_rate |-> <<9>>,
                           response_time_ms |-> <<>>]>>

\* Scenario A up to the throttle: one pair, one CRITICAL event, admitted
C24_PairFlaggedCriticalAdmitted ==
    (Returned /\ ScenarioA) =>
        /\ Len(correlated_data) = 1
        /\ Len(anomalies) = 1
        /\ anomalies[1].severity = "CRITICAL"
        /\ decisions = <<TRUE>>

\* The confidence the code gives the event of scenario A
C24_ConfidenceOfTheCode ==
    (Returned /\ ScenarioA) =>
        \A i \in DOMAIN anomalies : anomalies[i].confidence = 7

\* C24: end-to-end scenario A: with correlation window 10, a seriesB record
\* {timestamp:1000, error_rate:0.9} and a seriesA record {lastclock:1005,
\* lastvalue:"42"} yield exactly one correlated pair; the scorer flags it with
\* severity CRITICAL and confidence >= 0.8; the throttle admits it; and the
\* dispatcher attempts all enabled channels.
C24_ScenarioAEndToEnd ==
    /\ C24_PairFlaggedCriticalAdmitted
    /\ (Returned /\ ScenarioA) =>
          /\ \A i \in DOMAIN anomalies : anomalies[i].confidence >= 8
          /\ send_call # <<>>
          /\ {attempted[i].channel : i \in DOMAIN attempted}
                 = Range(_get_default_channels("critical", alert_config))

\* The last send_alert call had no channels argument and was not rate-limited
SelectedByDefault ==
    /\ send_call # <<>>
    /\ send_call.argument = <<>>
    /\ "rate_limited" \notin DOMAIN send_result

\* Position of a severity in the order INFO, LOW, MEDIUM, HIGH, CRITICAL
Rank(severity) == CHOOSE i \in DOMAIN Severities : Severities[i] = severity

PairContent(pair) ==
    [zabbix |-> pair.zabbix, hyphenmon |-> pair.hyphenmon,
     correlation_window |-> pair.correlation_window]

\* An event without the clock readings stamped on it and on its pair
EventContent(event) ==
    [alerts |-> event.alerts, severity |-> event.severity,
     confidence |-> event.confidence,
     pair |-> PairContent(event.correlated_data)]

\* The second run against the first one
C26_Step ==
    pc' = "rerun" =>
        /\ Len(correlated_data') = Len(correlated_data)
        /\ \A i \in DOMAIN correlated_data :
               PairContent(correlated_data'[i]) = PairContent(correlated_data[i])
        /\ Len(anomalies') = Len(anomalies)
        /\ \A i \in DOMAIN anomalies :
               EventContent(anomalies'[i]) = EventContent(anomalies[i])
        /\ UNCHANGED <<zabbix_data, hyphenmon_data, correlation_window,
                       anomaly_detection_threshold, alert_history,
                       sent_alerts, results>>

C27_Step ==
    /\ (pc' = "fetching" /\ results' # results)
           => pc \in {"idle", "sleeping"}
    /\ pc = "sleeping" => (pc' = "sleeping" \/ results.end_time # <<>>)
    /\ alert_history' # alert_history
           => (pc = "alerting" /\ pc' = "alerting" /\ results' = results)
    /\ sent_alerts' = sent_alerts

C28_StepOrder ==
    /\ pc = "fetching" => pc' \in {"fetching", "correlating", "finally"}
    /\ pc = "correlating" => pc' \in {"correlating", "scoring", "finally"}
    /\ pc = "scoring" => pc' \in {"scoring", "alerting", "finally"}
    /\ pc = "alerting" => pc' \in {"alerting", "finally"}
    /\ pc = "finally" => pc' \in {"finally", "done"}

\* A returned cycle is DONE (success, no error) or ERRORED (no success, an
\* error recorded), never both and never neither
C28_Terminal ==
    Returned =>
        \/ results.success /\ results.errors = <<>>
        \/ ~results.success /\ results.errors # <<>>

\* ERRORED comes from the correlation step alone; a failed fetch ends in DONE
C28_ErroredFromCorrelation ==
    Returned =>
        /\ ~results.success =>
               /\ fetch_error = "none"
               /\ correlate_datasets_raises(zabbix_data, hyphenmon_data)
               /\ results.correlations = 0
        /\ fetch_error # "none" => results.success

\* C28, as the code has it: within a cycle the steps run in the order fetch,
\* correlate, score, throttle/dispatch; every cycle ends in exactly one
\* terminal state, DONE (success=true) or ERRORED (success=false); ERRORED is
\* reached when an exception arrives at the handler of the cycle, which
\* happens in the correlation step; a fetch that failed because the data
\* source is unreachable ends in DONE.
C28_StepsAndTerminalStates ==
    /\ [](C28_Terminal /\ C28_ErroredFromCorrelation)
    /\ [][C28_StepOrder]_vars

\* C28 as stated: a cycle whose fetch found the data source unreachable ends
\* in ERRORED
C28_UnreachableSourceErrored ==
    (Returned /\ fetch_error = "connection") =>
        /\ ~results.success
        /\ results.errors # <<>>

\* C28 happens: a cycle has ended in ERRORED after records of both series
\* were fetched
C28_Witness ==
    /\ pc = "done"
    /\ ~results.success
    /\ results.zabbix_records > 0
    /\ results.hyphenmon_records > 0
    /\ fetch_error = "none"

\* Some channel of the call just made delivered
DeliveredNext == \E i \in DOMAIN attempted' : attempted'[i].success

\* The call before was attempted and delivered on no channel, and the call
\* just made is for the same source and title
RepeatedAfterFailure ==
    /\ Dispatched
    /\ ~send_result.success
    /\ send_call'.alert.source = send_call.alert.source
    /\ send_call'.alert.title = send_call.alert.title

\* One send_alert call and the rate-limiter history
C29_Step ==
    /\ sent_alerts' # sent_alerts => DeliveredNext
    /\ ~DeliveredNext => sent_alerts' = sent_alerts
    /\ "rate_limited" \in DOMAIN send_result' => sent_alerts' = sent_alerts
    /\ send_call'.channels = <<>> => sent_alerts' = sent_alerts
    /\ RepeatedAfterFailure =>
           /\ "rate_limited" \notin DOMAIN send_result'
           /\ Len(attempted') = Len(send_call'.channels)

\* C29: send_alert modifies the rate-limiter history sent_alerts only when at
\* least one channel delivery succeeded: a rate-limited call, a call in which
\* every channel failed, and a call for which no channel was selected all
\* leave sent_alerts unchanged, so an immediately repeated dispatch of the
\* same (source, title) after a total failure is attempted again rather than
\* rate-limited.
C29_HistoryWrittenOnSuccessOnly == [][C29_Step]_vars

\* C29 happens: every channel of a call failed, and the history, which holds
\* other alerts, has no entry for this one
C29_Witness ==
    /\ Dispatched
    /\ attempted # <<>>
    /\ ~send_result.success
    /\ sent_alerts # <<>>
    /\ rate_key(send_call.alert) \notin DOMAIN sent_alerts

\* 2 x rate_limit_window
PruneAge == rate_limit_window * PruneFactor

\* What one write does to the entries: those of PruneAge seconds or more are
\* removed, the younger ones and the one just written are kept
C30_PrunedFromPruneAge ==
    [][/\ \A k \in DOMAIN sent_alerts :
              k # rate_key(send_call'.alert) =>
                  IF now' - sent_alerts[k] >= PruneAge
                  THEN k \notin DOMAIN sent_alerts'
                  ELSE /\ k \in DOMAIN sent_alerts'
                       /\ sent_alerts'[k] = sent_alerts[k]
       /\ rate_key(send_call'.alert) \in DOMAIN sent_alerts'
       /\ sent_alerts'[rate_key(send_call'.alert)] = now'
       /\ \A k \in DOMAIN sent_alerts' : now' - sent_alerts'[k] <= PruneAge
      ]_vars

\* One write to the history, as stated
C30_Step ==
    /\ \A k \in DOMAIN sent_alerts :
           k # rate_key(send_call'.alert) =>
               IF now' - sent_alerts[k] > PruneAge
               THEN k \notin DOMAIN sent_alerts'
               ELSE /\ k \in DOMAIN sent_alerts'
                    /\ sent_alerts'[k] = sent_alerts[k]
    /\ rate_key(send_call'.alert) \in DOMAIN sent_alerts'
    /\ sent_alerts'[rate_key(send_call'.alert)] = now'
    /\ \A k \in DOMAIN sent_alerts' : now' - sent_alerts'[k] <= PruneAge

\* C30: on every write to the rate-limiter history (each successful
\* dispatch), exactly the entries older than 2 x rate_limit_window (600 s)
\* are removed and all other entries, including the one just written, are
\* kept; immediately after such a write no entry of sent_alerts is older
\* than 600 s.
C30_PruneOlderThanTwoWindows == [][C30_Step]_vars

\* C31: alert_history never holds more than 100 entries in any state
\* observable between operations: after every _update_alert_history call, and
\* therefore after every process_anomalies call and every cycle, its size is
\* at most 100.
C31_HistoryAtMostCap == Cardinality(DOMAIN alert_history) <= HistoryCap

\* C31 happens: a key was recorded in a full history and an entry that was
\* there has been evicted
C31_Witness ==
    /\ anomalies # <<>>
    /\ Cardinality(DOMAIN alert_history) = HistoryCap
    /\ \E s \in {"HIGH", "LOW"} :
           LET before == DOMAIN FilledHistory(s, HistoryCap - 1)
           IN  /\ before \cap DOMAIN alert_history # {}
               /\ before \ DOMAIN alert_history # {}

\* The rule of detect_anomalies holds for a pair that can be scored
Flagged(record) ==
    /\ ~detect_anomalies_raises(record)
    /\ detect_anomalies(record) # <<>>

\* C32: if scoring one pair of a batch fails (raises because of missing or
\* malformed fields), detect_anomalies_batch does not raise: it excludes that
\* pair and still returns the events of every other pair of the batch that
\* is flagged.
C32_ScoringFailureExcludesOnePair ==
    Scored =>
        /\ results.errors = <<>>
        /\ \A i \in DOMAIN correlated_data :
               (\E k \in DOMAIN anomalies :
                    anomalies[k].correlated_data = correlated_data[i])
               <=> Flagged(correlated_data[i])

\* C32 happens: the first pair of a batch could not be scored, the second one
\* is flagged and has its event
C32_Witness ==
    /\ Scored
    /\ Len(correlated_data) > 1
    /\ detect_anomalies_raises(correlated_data[1])
    /\ Flagged(correlated_data[2])
    /\ \E k \in DOMAIN anomalies :
           anomalies[k].correlated_data = correlated_data[2]

\* C33: detect_anomalies_batch preserves order: the events it returns appear
\* in the same relative order as the input pairs that produced them, with at
\* most one event per input pair.
C33_EventsInInputOrder ==
    Scored =>
        [k \in DOMAIN anomalies |-> anomalies[k].correlated_data]
            = SelectSeq(correlated_data, Flagged)

\* C33 happens: two different flagged pairs with an unflagged one between
\* them, two events
C33_Witness ==
    /\ Scored
    /\ Len(correlated_data) = 3
    /\ Len(anomalies) = 2
    /\ ~Flagged(correlated_data[2])
    /\ anomalies[1].correlated_data = correlated_data[1]
    /\ anomalies[2].correlated_data = correlated_data[3]
    /\ correlated_data[1] # correlated_data[3]

\* The keys of the events the throttle admitted in the cycle that just ended
AdmittedKeys ==
    {alert_key(anomalies[i]) :
        i \in {k \in DOMAIN decisions : decisions[k]}}

\* C34: the throttle history persists across the cycles of one
\* MonitoringProcessor: when the next cycle starts, alert_history still holds
\* every key the throttle recorded for an event it admitted in the cycle
\* before (nothing is evicted while the history is below its cap), so that a
\* later non-CRITICAL event with such a key is rejected.
C34_Step ==
    (pc = "sleeping" /\ pc' = "fetching"
        /\ Cardinality(DOMAIN alert_history) < HistoryCap)
    => /\ AdmittedKeys \subseteq DOMAIN alert_history'
       /\ \A key \in AdmittedKeys :
            LET later == [timestamp |-> key[2], severity |-> key[1],
                          confidence |-> FullConfidence]
            IN  key[1] # "CRITICAL"
                    => ~_should_send_alert(later, alert_history')

C34_FrameStep ==
    alert_history' # alert_history =>
        \E anomaly \in ThrottleEvents, t \in ClockReads :
            alert_history' = _update_alert_history(alert_history, anomaly, t)

C34_OnlyRecordStepsWrite == [][C34_FrameStep]_vars

\* A step of the cycle after fetch_recent_data has returned
CycleStep ==
    \/ CorrelateDatasets
    \/ DetectAnomaliesBatch
    \/ ProcessAnomaly
    \/ ProcessAnomaliesReturn
    \/ FinishCycle

\* Calls of process_data_cycle whose collaborators return: once the fetch has
\* returned, the one thread executes the next statement of the cycle
SpecCycle == Init /\ [][Next]_vars /\ WF_vars(CycleStep)

\* The positions of a call between the return of the fetch and its own return
InCycle == pc \in {"correlating", "scoring", "alerting", "finally"}

\* The summary of a call that has returned carries its end and its duration
C35_SummaryTimed ==
    Returned =>
        /\ Present(results.end_time)
        /\ Present(results.duration_seconds)
        /\ Val(results.end_time) >= results.start_time
        /\ Val(results.duration_seconds) =
               Val(results.end_time) - results.start_time

\* C35: every process_data_cycle call terminates and returns a summary in
\* which end_time and duration_seconds are set, with end_time >= start_time
\* and duration_seconds = end_time - start_time, on every exit path: no
\* seriesB data, no correlations, normal completion, and caught exception.
C35_CycleReturnsTimedSummary ==
    /\ [](C35_SummaryTimed)
    /\ [][pc = "fetching" => pc' \in {"correlating", "finally"}]_vars
    /\ InCycle ~> (pc = "done")

\* C35 happens: a cycle that caught an exception has returned a second after
\* it started
C35_Witness ==
    /\ pc = "done"
    /\ results.errors # <<>>
    /\ results.end_time = <<results.start_time + 1>>
    /\ results.duration_seconds = <<1>>

\* The other exit paths of C35 are taken as well
C35_ExitPaths ==
    /\ pc = "done" /\ results.success
    /\ \/ hyphenmon_data = <<>>
       \/ hyphenmon_data # <<>> /\ correlated_data = <<>>
       \/ decisions # <<>>

\* Some record of the seriesA list lies within the tolerance of correlate()
\* of the seriesB record h
SomeRecordWithin(h) ==
    \E i \in DOMAIN zabbix_data :
        Abs(Val(zabbix_data[i].lastclock) - Val(h.timestamp)) <= LegacyWindow

\* C36: the legacy correlate(zabbix_data_list, h_data) searches the whole
\* list: its output is non-empty whenever some record of the list has a
\* lastclock within 10 seconds of the seriesB timestamp, and empty only when
\* none has.
C36_SearchesWholeList ==
    pc = "legacy" =>
        \A k \in DOMAIN decisions :
            decisions[k] <=> SomeRecordWithin(hyphenmon_data[k])

\* What holds of C36: the output is non-empty exactly when the first record
\* of the list, the latest one, is within the tolerance, and then it carries
\* that record
C36_FirstRecordOnly ==
    pc = "legacy" =>
        \A k \in DOMAIN decisions :
            decisions[k] <=>
                Abs(Val(zabbix_data[1].lastclock)
                    - Val(hyphenmon_data[k].timestamp)) <= LegacyWindow

\* The call just made answers rate_limited=true only when its own
\* (source, title) pair succeeded less than rate_limit_window before
C37_Step ==
    LET alert == send_call'.alert
        pair == <<alert.source, alert.title>>
    IN  "rate_limited" \in DOMAIN send_result'
        => /\ pair \in DOMAIN last_success
           /\ send_call'.at - last_success[pair] < rate_limit_window

\* C37: two alerts whose (source, title) pairs differ are rate-limited
\* independently: a successful dispatch of one never causes a dispatch of the
\* other to return rate_limited=true, whatever the source and title strings
\* are (strings that contain the separator '_' included).
C37_PairsLimitedIndependently == [][C37_Step]_vars

\* C37 for the calls whose key string no other pair of the model shares
C37_WhenKeysDiffer ==
    [][(\A other \in Alerts :
            rate_key(other) = rate_key(send_call'.alert)
            => /\ other.source = send_call'.alert.source
               /\ other.title = send_call'.alert.title)
       => C37_Step]_vars

\* C38: every event emitted by detect_anomalies_batch has confidence >= 0.5;
\* hence the confidence floor of the throttle (confidence < 0.3 rejects) never
\* rejects an event of the pipeline's own scorer, and every CRITICAL event
\* the pipeline produces is admitted.
C38_ConfidenceAtLeastBase ==
    /\ \A i \in DOMAIN anomalies :
          /\ anomalies[i].confidence >= BaseConfidence
          /\ anomalies[i].confidence >= ConfidenceFloor
    /\ pc \in {"alerting", "finally", "done", "sleeping"} =>
          \A i \in DOMAIN decisions :
              anomalies[i].severity = "CRITICAL" => decisions[i]

\* C38 happens: a CRITICAL event with the lowest confidence the scorer gives
\* was admitted
C38_Witness ==
    /\ pc = "alerting"
    /\ \E i \in DOMAIN decisions :
          /\ anomalies[i].severity = "CRITICAL"
          /\ anomalies[i].confidence = BaseConfidence
          /\ decisions[i]

\* C39: every event emitted by detect_anomalies_batch has severity MEDIUM,
\* HIGH or CRITICAL: LOW is never assigned to an emitted event, because an
\* event is emitted only when error_rate > 0.5, which lies above the lower
\* bound of the MEDIUM band.
C39_NeverLow ==
    \A i \in DOMAIN anomalies :
        /\ anomalies[i].severity \in {"MEDIUM", "HIGH", "CRITICAL"}
        /\ Indicator(anomalies[i]) > ErrorRateRule
        /\ ErrorRateRule >= MediumAbove

\* C39 happens: a batch scored under the threshold 0.3 gave a MEDIUM event and
\* none for its record with error_rate 0.4
C39_Witness ==
    /\ Scored
    /\ anomaly_detection_threshold < MediumAbove
    /\ Len(anomalies) = 1
    /\ anomalies[1].severity = "MEDIUM"
    /\ \E k \in DOMAIN correlated_data :
          Val(correlated_data[k].hyphenmon.error_rate) = MediumAbove

\* C40: in every summary returned by process_data_cycle the stage counts are
\* ordered: alerts_sent <= anomalies <= correlations
\* <= zabbix_records * hyphenmon_records, and each count is >= 0.
C40_CountsOrdered ==
    Returned =>
        /\ 0 <= results.alerts_sent
        /\ results.alerts_sent <= results.anomalies
        /\ results.anomalies <= results.correlations
        /\ results.correlations
               <= results.zabbix_records * results.hyphenmon_records
        /\ 0 <= results.zabbix_records
        /\ 0 <= results.hyphenmon_records

\* C40 happens: a cycle returned a summary in which every pair of the two
\* series correlated and every pair was flagged
C40_Witness ==
    /\ pc = "done"
    /\ results.anomalies = results.correlations
    /\ results.correlations
           = results.zabbix_records * results.hyphenmon_records
    /\ results.correlations = MaxRecords - 1

============================================================================
